---- MODULE Spec2Model ----
(***************************************************************************)
(* Pose-driven form validation of the plank timer: the usePoseDetection    *)
(* hook (hooks/usePoseDetection.ts) and the lazy MediaPipe loader          *)
(* (lib/mediapipeLoader.ts).                                               *)
(*                                                                         *)
(* Time is in milliseconds.  performance.now() is only ever compared       *)
(* through the difference now - lastDetectionTimeRef against thresholds of *)
(* at most 1000/minFps, so both the clock and that difference are kept     *)
(* saturated at TimeCap; the saturation is exact for every comparison the  *)
(* code makes.                                                             *)
(***************************************************************************)
EXTENDS Integers, Sequences, FiniteSets, TLC

(* ------------------------------ bounds -------------------------------- *)
\* largest stabilityFrames / gracePeriodFrames option a session is built with
MaxStabilityFrames == 2
MaxGraceFrames == 2
\* the frame counters of the tracker are capped at this value by the guards
MaxCount == 4
\* acquisitions (async runs of the loader), effect runs, preloads, cleanups
MaxLoads == 2
MaxEffects == 2
MaxPreloads == 1
MaxCleanups == 1
\* the highest rate tried as an option of the hook
MaxRate == 12
\* precision of the floating-point model: bits of the significand, and the
\* weight 2^-FracBits of the smallest unit (the bottom of the exponent range)
MantissaBits == 3
FracBits == 4

(* ------------------------- program constants --------------------------- *)
minFps == 5
maxFps == 15
adaptiveFps == TRUE
WindowSize == 10

\* granularity of the clock: half the longest detection interval
TickMs == 1000 \div (2 * minFps)
TimeCap == ((1000 \div minFps + TickMs - 1) \div TickMs) * TickMs
Sat(t) == IF t > TimeCap THEN TimeCap ELSE t

\* per-detection latencies (ms) a device can show; a session runs on one device
DeviceProfiles == {{20}, {100}}
\* devices for the sampler: steady ones whose average sits on a limit of a band,
\* and a fast one that can slow down during the session
SamplerProfiles == {{30}, {50}, {80}, {20}}
FastDevice == {20}
SlowDevice == {100}

(* ------------------------------ state ---------------------------------- *)
VARIABLES
    \* options of usePoseDetection
    stabilityFrames, gracePeriodFrames, enableDetection,
    \* React state of the hook
    isReady, isProcessing, error, detectionResult,
    \* refs of the hook
    poseLandmarkerRef, plankDetectedCountRef, plankLostCountRef, isPlankActiveRef,
    frameTimeSinceLastDetection, lastResultRef, smoothedLandmarksRef,
    detectionDurationsRef, currentFpsRef, frameTimeThresholdRef,
    \* effect runs of the hook: effects[g] = [mounted, pc, src]
    effects,
    \* module state of the loader
    poseLandmarkerInstance, isLoading, loadPromise,
    \* acquisitions started by loadPoseLandmarker: loads[a] = pc of the async run
    loads,
    \* close() calls received by the instance each acquisition created
    closed,
    \* preload callbacks scheduled and not yet run
    preloadsPending,
    \* environment: the clock, the latencies of the device and the landmark sets
    \* the detector finds in the frames of the camera
    now, deviceLatencies, frameLandmarks,
    \* a call of a pure function under test: its arguments and its result
    call,
    \* history: last operation, callback it invoked, what the run has seen
    lastOp, fired, hist

hookVars == <<isReady, isProcessing, error, detectionResult, poseLandmarkerRef, effects,
              enableDetection>>
trackerVars == <<plankDetectedCountRef, plankLostCountRef, isPlankActiveRef>>
samplerVars == <<frameTimeSinceLastDetection, detectionDurationsRef, currentFpsRef,
                 frameTimeThresholdRef>>
loaderVars == <<poseLandmarkerInstance, isLoading, loadPromise, loads, closed,
                preloadsPending>>
configVars == <<stabilityFrames, gracePeriodFrames, deviceLatencies, frameLandmarks, call>>
resultVars == <<lastResultRef, smoothedLandmarksRef>>
vars == <<configVars, hookVars, trackerVars, samplerVars, resultVars, loaderVars, now,
          lastOp, fired, hist>>

\* null reference (instances and promises are numbered from 1)
NULL == 0
\* an optional value: None, or Some(x)
None == <<>>
Some(x) == <<x>>

Min(a, b) == IF a < b THEN a ELSE b
Max(a, b) == IF a > b THEN a ELSE b

(* -------------------------- floating point ----------------------------- *)
\* A JavaScript number is an IEEE-754 double: every product, sum and difference
\* is rounded to the nearest representable value, ties to the even significand.
\* The model keeps that arithmetic at a precision of MantissaBits bits instead
\* of 53: a number is an integer count of units of 2^-FracBits, representable
\* when its magnitude has at most MantissaBits significant bits.
Scale == 2 ^ FracBits
One == Scale
Abs(n) == IF n < 0 THEN 0 - n ELSE n

\* the exponent of the rational n/den (n >= 0): the spacing of the representable
\* values around it is 2^FloatExponent units
FloatExponent(n, den) ==
    LET RECURSIVE E(_)
        E(s) == IF n < den * 2 ^ (MantissaBits + s) THEN s ELSE E(s + 1)
    IN E(0)

\* the representable value nearest to num/den units, ties to even
RoundToFloat(num, den) ==
    LET n == Abs(num)
        unit == den * 2 ^ FloatExponent(n, den)
        q == n \div unit
        r == n % unit
        m == IF 2 * r > unit \/ (2 * r = unit /\ q % 2 = 1) THEN q + 1 ELSE q
    IN (IF num < 0 THEN 0 - 1 ELSE 1) * m * 2 ^ FloatExponent(n, den)

IsFloat(n) == RoundToFloat(n, 1) = n
\* the operators *, + and - of the language on two numbers
FMul(a, b) == RoundToFloat(a * b, Scale)
FAdd(a, b) == RoundToFloat(a + b, 1)
FSub(a, b) == RoundToFloat(a - b, 1)
\* the literal 0.3 (line 165)
SmoothingAlpha == RoundToFloat(3 * Scale, 10)

(* ------------------------------ smoothing ------------------------------ *)
\* an EMA with the weights exchanged
EmaWeightsPrevious(alpha, current, previous) ==
    FAdd(FMul(alpha, previous), FMul(FSub(One, alpha), current))

\* the EMA of one coordinate (lines 33-35)
Ema(alpha, current, previous) ==
    FAdd(FMul(alpha, current), FMul(FSub(One, alpha), previous))

\* smoothLandmarks that smooths the first landmarks against the origin
smoothLandmarksFromOrigin(currentLandmarks, previousLandmarks, alpha) ==
    [index \in 1..Len(currentLandmarks) |->
        LET current == currentLandmarks[index]
        IN IF previousLandmarks # None /\ index > Len(previousLandmarks[1])
           THEN current
           ELSE LET previous == IF previousLandmarks = None
                                THEN [x |-> 0, y |-> 0, z |-> 0]
                                ELSE previousLandmarks[1][index]
                IN [x |-> Ema(alpha, current.x, previous.x),
                    y |-> Ema(alpha, current.y, previous.y),
                    z |-> Ema(alpha, current.z, previous.z),
                    visibility |-> current.visibility]]

\* smoothLandmarks (lines 16-39).  A landmark is [x, y, z, visibility], a
\* landmark array a sequence of landmarks, previousLandmarks an optional array.
smoothLandmarks(currentLandmarks, previousLandmarks, alpha) ==
    IF previousLandmarks = None
    THEN currentLandmarks
    ELSE [index \in 1..Len(currentLandmarks) |->
            LET current == currentLandmarks[index]
            IN IF index > Len(previousLandmarks[1])
               THEN current
               ELSE LET previous == previousLandmarks[1][index]
                    IN [x |-> Ema(alpha, current.x, previous.x),
                        y |-> Ema(alpha, current.y, previous.y),
                        z |-> Ema(alpha, current.z, previous.z),
                        visibility |-> current.visibility]]

\* a landmark with the given coordinates and visibility, in units of 2^-FracBits
Landmark(x, y, z, visibility) == [x |-> x, y |-> y, z |-> z, visibility |-> visibility]
\* what the detector finds in the frames: a person who keeps still, and a person
\* who moves between two poses
StillPose == <<Landmark(Scale \div 2, Scale \div 2, 0, Scale)>>
MovedPose == <<Landmark(Scale, Scale \div 2, 0, Scale \div 2)>>
StillCamera == {StillPose}
MovingCamera == {StillPose, MovedPose}
\* no pure function is under test
NoCall == [fn |-> "none"]

\* the numbers of the model in [-1, 1], and the smoothing factors in (0, 1]
Floats == {n \in (0 - Scale)..Scale : IsFloat(n)}
Alphas == {a \in 1..One : IsFloat(a)}
\* a call smoothLandmarks(currentLandmarks, previousLandmarks, alpha) to be made
SmoothCall(currentLandmarks, previousLandmarks, alpha) ==
    [fn |-> "smoothLandmarks", currentLandmarks |-> currentLandmarks,
     previousLandmarks |-> previousLandmarks, alpha |-> alpha, result |-> None]
\* the arrays of the calls: two current landmarks, the first with any number as
\* x; previous landmarks for both of them, the first with any number as x, or
\* for the first only.  y takes the x of the other array and z the opposite of
\* x, so the three coordinates of a landmark are smoothed on different numbers.
CurrentArrays ==
    {<<Landmark(x, One, 0 - x, One), MovedPose[1]>> : x \in Floats}
PreviousArrays(currentLandmarks) ==
    LET first(x) == Landmark(x, currentLandmarks[1].x, 0 - x, One \div 2)
    IN {<<first(x), StillPose[1]>> : x \in Floats} \cup {<<first(One)>>}
SmoothCalls(currentLandmarks) ==
    {SmoothCall(currentLandmarks, p, a) :
        p \in {None} \cup {Some(q) : q \in PreviousArrays(currentLandmarks)},
        a \in Alphas}

(* ----------------------------- history --------------------------------- *)
\* operations that process a frame through the stability filter
FrameOps == {"valid", "invalid", "noPerson"}
\* operations that run a detection: those, and a detection that throws
RunOps == FrameOps \cup {"throw"}
RunCap == MaxCount + 1
\* the latencies remembered: one more than the window holds
RecordedCap == WindowSize + 1
LastOf(s, n) == IF Len(s) > n THEN SubSeq(s, Len(s) - n + 1, Len(s)) ELSE s

HistInit ==
    [ prev        |-> [detected |-> 0, lost |-> 0, active |-> FALSE, lastEvent |-> "none",
                       instance |-> NULL, closed |-> [a \in 1..MaxLoads |-> 0],
                       handle |-> NULL, ready |-> FALSE, fps |-> maxFps],
      lastEvent   |-> "none",  \* last callback invoked so far
      everReset   |-> FALSE,   \* reset() has been called
      validRun    |-> 0,       \* consecutive frames judged valid, each processed while Idle
      invalidRun  |-> 0,       \* consecutive frames judged invalid or without a person
      freshRun    |-> 0,       \* valid frames since Idle with both counters 0, -1 once broken
      runFired    |-> 0,       \* onPlankDetected calls during that run
      cleanups    |-> 0,       \* cleanupPoseLandmarker() calls that do not repeat one at once
      sinceRun    |-> 0 - 1,   \* ms since the last detection that ran started, -1 if none
      resetSinceRun |-> FALSE, \* reset() has been called since that detection
      recorded    |-> <<>>,    \* the last latencies recorded since construction or reset()
      landmarkFrames |-> 0,    \* frames with landmarks since construction or reset(), up to 2
      arg         |-> 0 ]      \* acquisition or effect run the last operation was about,
                               \* or the latency of the detection it ran

\* the operations before which the detector (handle, isReady, cached instance,
\* close() calls) is recorded in prev
DetectorOps == {"cleanup", "disable", "reset"}
\* the history after operation op that invoked callback cb ("none" if none); arg
\* is the acquisition or effect run it was about, or the latency of the detection
\* it ran (0 if none)
RecordOn(op, cb, arg) ==
    /\ lastOp' = op
    /\ fired' = cb
    /\ hist' =
         [ prev       |-> [detected |-> plankDetectedCountRef, lost |-> plankLostCountRef,
                           active |-> isPlankActiveRef, lastEvent |-> hist.lastEvent,
                           instance |-> IF op \in DetectorOps THEN poseLandmarkerInstance
                                        ELSE NULL,
                           closed |-> IF op \in DetectorOps THEN closed
                                      ELSE [a \in 1..MaxLoads |-> 0],
                           handle |-> IF op \in DetectorOps THEN poseLandmarkerRef ELSE NULL,
                           ready |-> IF op \in DetectorOps THEN isReady ELSE FALSE,
                           fps |-> currentFpsRef],
           lastEvent  |-> IF cb # "none" THEN cb ELSE hist.lastEvent,
           everReset  |-> hist.everReset \/ op = "reset",
           validRun   |-> CASE op = "valid" /\ ~isPlankActiveRef -> Min(hist.validRun + 1, RunCap)
                            [] op \in FrameOps \cup {"reset"} -> 0
                            [] OTHER -> hist.validRun,
           invalidRun |-> CASE op \in {"invalid", "noPerson"} -> Min(hist.invalidRun + 1, RunCap)
                            [] op \in {"valid", "reset"} -> 0
                            [] OTHER -> hist.invalidRun,
           freshRun   |-> CASE op = "reset" -> 0
                            [] op = "valid" /\ hist.freshRun >= 0 -> Min(hist.freshRun + 1, RunCap)
                            [] op \in FrameOps -> -1
                            [] OTHER -> hist.freshRun,
           runFired   |-> CASE op = "reset" -> 0
                            [] cb = "onPlankDetected" -> Min(hist.runFired + 1, 2)
                            [] OTHER -> hist.runFired,
           cleanups   |-> IF op = "cleanup" /\ lastOp # "cleanup" THEN hist.cleanups + 1
                           ELSE hist.cleanups,
           sinceRun   |-> CASE op \in RunOps -> Sat(arg)
                            [] op = "tick" /\ hist.sinceRun >= 0 -> Sat(hist.sinceRun + TickMs)
                            [] OTHER -> hist.sinceRun,
           resetSinceRun |-> CASE op = "reset" -> TRUE
                               [] op \in RunOps -> FALSE
                               [] OTHER -> hist.resetSinceRun,
           recorded   |-> CASE op = "reset" -> <<>>
                            [] op \in FrameOps /\ adaptiveFps ->
                                  LastOf(Append(hist.recorded, arg), RecordedCap)
                            [] OTHER -> hist.recorded,
           landmarkFrames |-> CASE op = "reset" -> 0
                                [] op \in {"valid", "invalid"} -> Min(hist.landmarkFrames + 1, 2)
                                [] OTHER -> hist.landmarkFrames,
           arg        |-> arg ]

Record(op, cb) == RecordOn(op, cb, 0)

(* ------------------------ usePoseDetection: frames --------------------- *)
\* verdicts that do not carry the landmarks they were computed from
PlankResultsWithoutLandmarks(landmarks) ==
    { [isPlank |-> TRUE, confidence |-> 100, feedback |-> "score", landmarks |-> None],
      [isPlank |-> FALSE, confidence |-> 0, feedback |-> "score", landmarks |-> None] }
\* verdicts detectPlankPosition can return for the landmarks of a person; the
\* result carries the landmarks it was computed from
PlankResults(landmarks) ==
    { [isPlank |-> TRUE, confidence |-> 100, feedback |-> "score",
       landmarks |-> Some(landmarks)],
      [isPlank |-> FALSE, confidence |-> 0, feedback |-> "score",
       landmarks |-> Some(landmarks)] }
NoPersonResult == [isPlank |-> FALSE, confidence |-> 0, feedback |-> "No person detected",
                   landmarks |-> None]
\* what detectForVideo returns: the landmark arrays of the persons found
PersonFound(rawLandmarks) == [landmarks |-> <<rawLandmarks>>]
NobodyFound == [landmarks |-> <<>>]

\* line 135: the early return of detectPose
CanDetect(video) == poseLandmarkerRef # NULL /\ isReady /\ video

\* a throttle that lets every call through
NeverThrottled == FALSE
\* a throttle that lets no call through
AlwaysThrottled == TRUE
\* line 142: frameTimeSinceLastDetection < frameTimeThresholdRef.current, the
\* threshold being the fraction num/den
Throttled == frameTimeSinceLastDetection * frameTimeThresholdRef.den < frameTimeThresholdRef.num

Sum(s) == LET RECURSIVE S(_) 
              S(i) == IF i = 0 THEN 0 ELSE s[i] + S(i - 1)
          IN S(Len(s))

\* a classification that never leaves the two middle bands
TargetFpsMiddleOnly(total) ==
    IF total > 50 * WindowSize THEN Max(minFps, (maxFps * 6) \div 10)
    ELSE (minFps + maxFps) \div 2

\* a classification whose 60% band starts at 50 ms
TargetFpsFromFifty(total) ==
    IF total > 80 * WindowSize THEN minFps
    ELSE IF total >= 50 * WindowSize THEN Max(minFps, (maxFps * 6) \div 10)
    ELSE IF total < 30 * WindowSize THEN maxFps
    ELSE (minFps + maxFps) \div 2

\* a 60% band that is not kept from falling below the lowest rate
TargetFpsOfUnclamped(lowest, highest, total) ==
    IF total > 80 * WindowSize THEN lowest
    ELSE IF total > 50 * WindowSize THEN (highest * 6) \div 10
    ELSE IF total < 30 * WindowSize THEN highest
    ELSE (lowest + highest) \div 2

\* lines 236-248 for a hook whose options are minFps = lowest and maxFps =
\* highest: the target rate for a full window whose samples add up to total
TargetFpsOf(lowest, highest, total) ==
    IF total > 80 * WindowSize THEN lowest
    ELSE IF total > 50 * WindowSize THEN Max(lowest, (highest * 6) \div 10)
    ELSE IF total < 30 * WindowSize THEN highest
    ELSE (lowest + highest) \div 2

\* lines 236-248: the target rate for a full window whose samples add up to total
\* (avgDetectionTime = total / 10)
TargetFps(total) ==
    IF total > 80 * WindowSize THEN minFps
    ELSE IF total > 50 * WindowSize THEN Max(minFps, (maxFps * 6) \div 10)
    ELSE IF total < 30 * WindowSize THEN maxFps
    ELSE (minFps + maxFps) \div 2

\* a window that, when full, drops the new sample instead of the oldest
PushDurationDropsNewest(window, d) ==
    IF Len(window) >= WindowSize THEN window ELSE Append(window, d)

\* lines 222-227: push, then shift when longer than 10
PushDuration(window, d) ==
    LET pushed == Append(window, d)
    IN IF Len(pushed) > WindowSize THEN Tail(pushed) ELSE pushed

\* lines 220-257: the adaptive rate after a detection that took d ms
AdaptFps(d) ==
    IF adaptiveFps
    THEN LET window == PushDuration(detectionDurationsRef, d)
         IN /\ detectionDurationsRef' = window
            /\ IF Len(window) = WindowSize
               THEN /\ currentFpsRef' = TargetFps(Sum(window))
                    /\ frameTimeThresholdRef' = [num |-> 1000, den |-> TargetFps(Sum(window))]
               ELSE UNCHANGED <<currentFpsRef, frameTimeThresholdRef>>
    ELSE UNCHANGED <<detectionDurationsRef, currentFpsRef, frameTimeThresholdRef>>

\* lines 138-157: the clock and the throttle reference after a detection of d ms
\* started at now (lastDetectionTimeRef = now, and d ms pass)
StartDetection(d) ==
    /\ now' = Sat(now + d)
    /\ frameTimeSinceLastDetection' = Sat(d)

\* ValidFrame without the test of isPlankActiveRef at line 179
ValidFrameNoActiveTest(d) ==
    /\ plankDetectedCountRef' = plankDetectedCountRef + 1
    /\ plankLostCountRef' = 0
    /\ IF plankDetectedCountRef + 1 >= stabilityFrames
       THEN isPlankActiveRef' = TRUE /\ RecordOn("valid", "onPlankDetected", d)
       ELSE isPlankActiveRef' = isPlankActiveRef /\ RecordOn("valid", "none", d)

\* ValidFrame without the reset of plankLostCountRef at line 175
ValidFrameKeepsLostCount(d) ==
    /\ plankDetectedCountRef' = plankDetectedCountRef + 1
    /\ plankLostCountRef' = plankLostCountRef
    /\ IF ~isPlankActiveRef /\ plankDetectedCountRef + 1 >= stabilityFrames
       THEN isPlankActiveRef' = TRUE /\ RecordOn("valid", "onPlankDetected", d)
       ELSE isPlankActiveRef' = isPlankActiveRef /\ RecordOn("valid", "none", d)

\* lines 173-184: a frame judged to be a plank
ValidFrame(d) ==
    /\ plankDetectedCountRef' = plankDetectedCountRef + 1
    /\ plankLostCountRef' = 0
    /\ IF ~isPlankActiveRef /\ plankDetectedCountRef + 1 >= stabilityFrames
       THEN isPlankActiveRef' = TRUE /\ RecordOn("valid", "onPlankDetected", d)
       ELSE isPlankActiveRef' = isPlankActiveRef /\ RecordOn("valid", "none", d)

\* InvalidFrame without the reset of plankDetectedCountRef at lines 187 and 207
InvalidFrameKeepsDetectedCount(op, d) ==
    /\ plankLostCountRef' = plankLostCountRef + 1
    /\ plankDetectedCountRef' = plankDetectedCountRef
    /\ IF isPlankActiveRef /\ plankLostCountRef + 1 >= gracePeriodFrames
       THEN isPlankActiveRef' = FALSE /\ RecordOn(op, "onPlankLost", d)
       ELSE isPlankActiveRef' = isPlankActiveRef /\ RecordOn(op, "none", d)

\* InvalidFrame without the grace period of lines 192 and 212
InvalidFrameNoGrace(op, d) ==
    /\ plankLostCountRef' = plankLostCountRef + 1
    /\ plankDetectedCountRef' = 0
    /\ IF isPlankActiveRef
       THEN isPlankActiveRef' = FALSE /\ RecordOn(op, "onPlankLost", d)
       ELSE isPlankActiveRef' = isPlankActiveRef /\ RecordOn(op, "none", d)

\* InvalidFrame without the test of isPlankActiveRef at lines 191 and 211
InvalidFrameNoActiveTest(op, d) ==
    /\ plankLostCountRef' = plankLostCountRef + 1
    /\ plankDetectedCountRef' = 0
    /\ IF plankLostCountRef + 1 >= gracePeriodFrames
       THEN isPlankActiveRef' = FALSE /\ RecordOn(op, "onPlankLost", d)
       ELSE isPlankActiveRef' = isPlankActiveRef /\ RecordOn(op, "none", d)

\* lines 186-196 and 206-216: a frame judged not to be a plank, or without a person
InvalidFrame(op, d) ==
    /\ plankLostCountRef' = plankLostCountRef + 1
    /\ plankDetectedCountRef' = 0
    /\ IF isPlankActiveRef /\ plankLostCountRef + 1 >= gracePeriodFrames
       THEN isPlankActiveRef' = FALSE /\ RecordOn(op, "onPlankLost", d)
       ELSE isPlankActiveRef' = isPlankActiveRef /\ RecordOn(op, "none", d)

\* the counters stay within the model
WithinCounts == plankDetectedCountRef < MaxCount /\ plankLostCountRef < MaxCount

\* detectPose returns at line 135: not ready, no handle, or no video
DetectPoseNotReady ==
    /\ \E video \in BOOLEAN : ~CanDetect(video)
    /\ Record("notReady", "none")
    /\ UNCHANGED <<configVars, hookVars, trackerVars, samplerVars, resultVars, loaderVars, now>>

\* a throttled call that still moves lastDetectionTimeRef to now
DetectPoseThrottledMovesTimestamp ==
    /\ CanDetect(TRUE)
    /\ Throttled
    /\ frameTimeSinceLastDetection' = 0
    /\ Record("throttled", "none")
    /\ UNCHANGED <<configVars, hookVars, trackerVars, detectionDurationsRef, currentFpsRef,
                   frameTimeThresholdRef, resultVars, loaderVars, now>>

\* detectPose returns at line 142: called too soon after the last detection
DetectPoseThrottled ==
    /\ CanDetect(TRUE)
    /\ Throttled
    /\ Record("throttled", "none")
    /\ UNCHANGED <<configVars, hookVars, trackerVars, samplerVars, resultVars, loaderVars, now>>

\* detectPose with a person in the frame (lines 159-197, 219-257)
DetectPosePerson ==
    /\ CanDetect(TRUE)
    /\ ~Throttled
    /\ WithinCounts
    /\ \E d \in deviceLatencies, rawLandmarks \in frameLandmarks :
          LET smoothedLandmarks ==
                  smoothLandmarks(rawLandmarks, smoothedLandmarksRef, SmoothingAlpha)
          IN \E plankResult \in PlankResults(smoothedLandmarks) :
                /\ StartDetection(d)
                /\ lastResultRef' = Some(PersonFound(rawLandmarks))
                /\ smoothedLandmarksRef' = Some(smoothedLandmarks)
                /\ detectionResult' = Some(plankResult)
                /\ IF plankResult.isPlank THEN ValidFrame(d) ELSE InvalidFrame("invalid", d)
                /\ AdaptFps(d)
    /\ UNCHANGED <<configVars, isReady, isProcessing, error, poseLandmarkerRef, effects,
                   enableDetection, loaderVars>>

\* detectPose with nobody in the frame (lines 198-217, 219-257)
DetectPoseNoPerson ==
    /\ CanDetect(TRUE)
    /\ ~Throttled
    /\ WithinCounts
    /\ \E d \in deviceLatencies :
          /\ StartDetection(d)
          /\ lastResultRef' = Some(NobodyFound)
          /\ detectionResult' = Some(NoPersonResult)
          /\ InvalidFrame("noPerson", d)
          /\ AdaptFps(d)
    /\ UNCHANGED <<configVars, isReady, isProcessing, error, poseLandmarkerRef, effects,
                   enableDetection, smoothedLandmarksRef, loaderVars>>

\* a catch block that counts the failed detection as a frame without a person
CatchAsNoPerson(code5, d) ==
    /\ error' = IF code5 THEN Some("Detection error - try refreshing if issue persists")
                         ELSE Some("Detection error occurred")
    /\ plankLostCountRef' = plankLostCountRef + 1
    /\ plankDetectedCountRef' = 0
    /\ IF isPlankActiveRef /\ plankLostCountRef + 1 >= gracePeriodFrames
       THEN isPlankActiveRef' = FALSE /\ RecordOn("throw", "onPlankLost", d)
       ELSE isPlankActiveRef' = isPlankActiveRef /\ RecordOn("throw", "none", d)

\* a catch block that gives the hold up
CatchAbortsHold(code5, d) ==
    /\ error' = IF code5 THEN Some("Detection error - try refreshing if issue persists")
                         ELSE Some("Detection error occurred")
    /\ isPlankActiveRef' = FALSE
    /\ RecordOn("throw", "none", d)
    /\ UNCHANGED <<plankDetectedCountRef, plankLostCountRef>>

\* the catch block (lines 258-272) after detectForVideo threw at line 154
CatchDetectionError(code5, d) ==
    /\ error' = IF code5 THEN Some("Detection error - try refreshing if issue persists")
                         ELSE Some("Detection error occurred")
    /\ RecordOn("throw", "none", d)
    /\ UNCHANGED <<trackerVars>>

\* detectPose that keeps the last result while detectForVideo runs and throws
DetectPoseThrowsKeepsResult ==
    /\ CanDetect(TRUE)
    /\ ~Throttled
    /\ \E d \in deviceLatencies, code5 \in BOOLEAN :
          /\ StartDetection(d)
          /\ CatchDetectionError(code5, d)
    /\ UNCHANGED <<configVars, isReady, isProcessing, detectionResult, poseLandmarkerRef,
                   effects, enableDetection, resultVars, detectionDurationsRef,
                   currentFpsRef, frameTimeThresholdRef, loaderVars>>

\* detectPose whose detectForVideo call throws (lines 138-154, 258-272)
DetectPoseThrows ==
    /\ CanDetect(TRUE)
    /\ ~Throttled
    /\ \E d \in deviceLatencies, code5 \in BOOLEAN :
          /\ StartDetection(d)
          /\ lastResultRef' = None
          /\ CatchDetectionError(code5, d)
    /\ UNCHANGED <<configVars, isReady, isProcessing, detectionResult, poseLandmarkerRef,
                   effects, enableDetection, smoothedLandmarksRef, detectionDurationsRef,
                   currentFpsRef, frameTimeThresholdRef, loaderVars>>

\* reset() that also gives up the handle of the detector
ResetDropsHandle ==
    /\ plankDetectedCountRef' = 0
    /\ plankLostCountRef' = 0
    /\ isPlankActiveRef' = FALSE
    /\ frameTimeSinceLastDetection' = now
    /\ lastResultRef' = None
    /\ smoothedLandmarksRef' = None
    /\ detectionDurationsRef' = <<>>
    /\ currentFpsRef' = maxFps
    /\ frameTimeThresholdRef' = [num |-> 1000, den |-> maxFps]
    /\ detectionResult' = None
    /\ error' = None
    /\ poseLandmarkerRef' = NULL
    /\ isReady' = FALSE
    /\ Record("reset", "none")
    /\ UNCHANGED <<configVars, isProcessing, effects, enableDetection, loaderVars, now>>

\* reset() that keeps the smoothed landmarks and the adapted rate
ResetKeepsSmoothingAndRate ==
    /\ plankDetectedCountRef' = 0
    /\ plankLostCountRef' = 0
    /\ isPlankActiveRef' = FALSE
    /\ frameTimeSinceLastDetection' = now
    /\ lastResultRef' = None
    /\ detectionDurationsRef' = <<>>
    /\ detectionResult' = None
    /\ error' = None
    /\ Record("reset", "none")
    /\ UNCHANGED <<configVars, isReady, isProcessing, poseLandmarkerRef, effects,
                   enableDetection, smoothedLandmarksRef, currentFpsRef,
                   frameTimeThresholdRef, loaderVars, now>>

\* reset() (lines 276-297)
Reset ==
    /\ plankDetectedCountRef' = 0
    /\ plankLostCountRef' = 0
    /\ isPlankActiveRef' = FALSE
    /\ frameTimeSinceLastDetection' = now
    /\ lastResultRef' = None
    /\ smoothedLandmarksRef' = None
    /\ detectionDurationsRef' = <<>>
    /\ currentFpsRef' = maxFps
    /\ frameTimeThresholdRef' = [num |-> 1000, den |-> maxFps]
    /\ detectionResult' = None
    /\ error' = None
    /\ Record("reset", "none")
    /\ UNCHANGED <<configVars, isReady, isProcessing, poseLandmarkerRef, effects,
                   enableDetection, loaderVars, now>>

\* time passes between two calls
Tick ==
    /\ \/ now < TimeCap
       \/ frameTimeSinceLastDetection < TimeCap
       \/ hist.sinceRun >= 0 /\ hist.sinceRun < TimeCap
    /\ now' = Sat(now + TickMs)
    /\ frameTimeSinceLastDetection' = Sat(frameTimeSinceLastDetection + TickMs)
    /\ Record("tick", "none")
    /\ UNCHANGED <<configVars, hookVars, trackerVars, resultVars, detectionDurationsRef,
                   currentFpsRef, frameTimeThresholdRef, loaderVars>>

\* the device gets slower (load, heat): the detections take longer from now on
DeviceSlowsDown ==
    /\ deviceLatencies = FastDevice
    /\ deviceLatencies' = SlowDevice
    /\ Record("slowsDown", "none")
    /\ UNCHANGED <<stabilityFrames, gracePeriodFrames, frameLandmarks, call, hookVars,
                   trackerVars, samplerVars, resultVars, loaderVars, now>>

\* the call under test is made: smoothLandmarks returns
SmoothLandmarksCall ==
    /\ call.fn = "smoothLandmarks"
    /\ call.result = None
    /\ call' = [call EXCEPT !.result = Some(smoothLandmarks(call.currentLandmarks,
                                                            call.previousLandmarks,
                                                            call.alpha))]
    /\ Record("smoothLandmarks", "none")
    /\ UNCHANGED <<stabilityFrames, gracePeriodFrames, deviceLatencies, frameLandmarks,
                   hookVars, trackerVars, samplerVars, resultVars, loaderVars, now>>

(* ------------------------- plank scorer: geometry ---------------------- *)
\* Coordinates and visibilities of the scorer's landmarks are multiples of
\* 1/CoordUnits.  A measure (an angle in degrees, a distance or a co-linearity
\* score in 1/CoordUnits) is kept as a grade: 2k when it is exactly k, 2k + 1
\* when it lies strictly between k and k + 1.
CoordUnits == 20
Hundredths(n) == (n * CoordUnits) \div 100
Exactly(k) == 2 * k
Between(k) == 2 * k + 1
IsExact(grade) == grade % 2 = 0

\* MediaPipe Pose landmark indices (lines 29-43)
POSE_LANDMARKS ==
    [NOSE |-> 0, LEFT_SHOULDER |-> 11, RIGHT_SHOULDER |-> 12, LEFT_ELBOW |-> 13,
     RIGHT_ELBOW |-> 14, LEFT_WRIST |-> 15, RIGHT_WRIST |-> 16, LEFT_HIP |-> 23,
     RIGHT_HIP |-> 24, LEFT_KNEE |-> 25, RIGHT_KNEE |-> 26, LEFT_ANKLE |-> 27,
     RIGHT_ANKLE |-> 28]
\* landmarks[idx] of an array without that element
undefined == [type |-> "undefined"]

\* cos(d degrees)^2 in 1/CosUnits, rounded down, for d = 0..90
CosUnits == 100000
CosSquared ==
    <<
       100000, 99969, 99878, 99726, 99513, 99240, 98907, 98514, 98063, 97552,
       96984, 96359, 95677, 94939, 94147, 93301, 92402, 91451, 90450, 89400,
       88302, 87157, 85966, 84732, 83456, 82139, 80783, 79389, 77959, 76495,
       75000, 73473, 71918, 70336, 68730, 67101, 65450, 63781, 62096, 60395,
       58682, 56958, 55226, 53487, 51744, 50000, 48255, 46512, 44773, 43041,
       41317, 39604, 37903, 36218, 34549, 32898, 31269, 29663, 28081, 26526,
       25000, 23504, 22040, 20610, 19216, 17860, 16543, 15267, 14033, 12842,
       11697, 10599, 9549, 8548, 7597, 6698, 5852, 5060, 4322, 3640,
       3015, 2447, 1936, 1485, 1092, 759, 486, 273, 121, 30,
       0
    >>
\* the angle whose cosine is dot / sqrt(squares) is at least d degrees (line 80)
AngleAtLeast(dot, squares, d) ==
    IF d <= 90
    THEN dot <= 0 \/ dot * dot * CosUnits <= CosSquared[d + 1] * squares
    ELSE dot < 0 /\ dot * dot * CosUnits >= CosSquared[180 - d + 1] * squares
\* the angles that are a whole number of degrees between points of the grid
AngleIsExact(dot, squares, d) ==
    \/ d = 0 /\ dot > 0 /\ dot * dot = squares
    \/ d = 45 /\ dot > 0 /\ 2 * dot * dot = squares
    \/ d = 90 /\ dot = 0
    \/ d = 135 /\ dot < 0 /\ 2 * dot * dot = squares
    \/ d = 180 /\ dot < 0 /\ dot * dot = squares

\* calculateAngle (lines 52-84): the grade of the angle at b, in degrees
calculateAngle(a, b, c) ==
    LET ba == [x |-> a.x - b.x, y |-> a.y - b.y]
        bc == [x |-> c.x - b.x, y |-> c.y - b.y]
        dotProduct == ba.x * bc.x + ba.y * bc.y
        squaredBA == ba.x * ba.x + ba.y * ba.y
        squaredBC == bc.x * bc.x + bc.y * bc.y
        squares == squaredBA * squaredBC
        degrees == CHOOSE d \in 0..180 :
                       /\ AngleAtLeast(dotProduct, squares, d)
                       /\ d < 180 => ~AngleAtLeast(dotProduct, squares, d + 1)
    IN IF squaredBA = 0 \/ squaredBC = 0 THEN Exactly(0)
       ELSE IF AngleIsExact(dotProduct, squares, degrees) THEN Exactly(degrees)
       ELSE Between(degrees)

\* calculateColinearity (lines 94-117): the grade of the score, in 1/CoordUnits
calculateColinearity(a, b, c) ==
    LET dx1 == b.x - a.x
        dy1 == b.y - a.y
        dx2 == c.x - b.x
        dy2 == c.y - b.y
        crossProduct == Abs(dx1 * dy2 - dy1 * dx2)
        squaredDistance == (c.x - a.x) * (c.x - a.x) + (c.y - a.y) * (c.y - a.y)
        \* crossProduct / totalDistance * 2 >= k / CoordUnits, in grid units
        AtLeast(k) == 4 * crossProduct * crossProduct >= k * k * squaredDistance
        units == CHOOSE k \in 0..CoordUnits :
                     AtLeast(k) /\ (k < CoordUnits => ~AtLeast(k + 1))
    IN IF squaredDistance = 0 THEN Exactly(CoordUnits)
       ELSE IF units = CoordUnits
               \/ 4 * crossProduct * crossProduct = units * units * squaredDistance
       THEN Exactly(units)
       ELSE Between(units)

\* (left + right) / 2 of two measures (lines 226, 231, 268, 291, 295, 327, 345):
\* the grades the average can have
Average(left, right) ==
    LET sum == (left \div 2) + (right \div 2)
    IN CASE IsExact(left) /\ IsExact(right) -> {sum}
         [] IsExact(left) # IsExact(right) -> {IF sum % 2 = 0 THEN sum + 1 ELSE sum}
         [] OTHER -> IF sum % 2 = 0 THEN {sum + 1} ELSE {sum, sum + 1, sum + 2}

(* ------------------------- plank scorer: verdict ----------------------- *)
\* the default minVisibility 0.3 (lines 125, 158)
MinVisibility == Hundredths(30)
\* lines 142, 146, 161-163: landmarks[idx] && landmarks[idx].visibility &&
\* landmarks[idx].visibility >= minVisibility
IsVisible(landmarks, idx, minVisibility) ==
    /\ landmarks[idx] # undefined
    /\ "visibility" \in DOMAIN landmarks[idx]
    /\ landmarks[idx].visibility # 0
    /\ landmarks[idx].visibility >= minVisibility

\* checkSideVisibility (lines 123-150)
checkSideVisibility(landmarks, minVisibility) ==
    LET leftIndices == {POSE_LANDMARKS.LEFT_SHOULDER, POSE_LANDMARKS.LEFT_HIP,
                        POSE_LANDMARKS.LEFT_KNEE, POSE_LANDMARKS.LEFT_ANKLE}
        rightIndices == {POSE_LANDMARKS.RIGHT_SHOULDER, POSE_LANDMARKS.RIGHT_HIP,
                         POSE_LANDMARKS.RIGHT_KNEE, POSE_LANDMARKS.RIGHT_ANKLE}
    IN [left |-> \A idx \in leftIndices : IsVisible(landmarks, idx, minVisibility),
        right |-> \A idx \in rightIndices : IsVisible(landmarks, idx, minVisibility)]

\* a visibility check that does not look at the nose
areLandmarksVisibleWithoutNose(landmarks, minVisibility) ==
    LET sides == checkSideVisibility(landmarks, minVisibility)
    IN sides.left \/ sides.right

\* areLandmarksVisible (lines 156-170)
areLandmarksVisible(landmarks, minVisibility) ==
    LET noseVisible == IsVisible(landmarks, POSE_LANDMARKS.NOSE, minVisibility)
        sides == checkSideVisibility(landmarks, minVisibility)
    IN IF ~noseVisible THEN FALSE ELSE sides.left \/ sides.right

\* the landmarks of one side that the scoring reads
LeftSide(landmarks) ==
    [shoulder |-> landmarks[POSE_LANDMARKS.LEFT_SHOULDER],
     elbow |-> landmarks[POSE_LANDMARKS.LEFT_ELBOW],
     wrist |-> landmarks[POSE_LANDMARKS.LEFT_WRIST],
     hip |-> landmarks[POSE_LANDMARKS.LEFT_HIP],
     knee |-> landmarks[POSE_LANDMARKS.LEFT_KNEE],
     ankle |-> landmarks[POSE_LANDMARKS.LEFT_ANKLE]]
RightSide(landmarks) ==
    [shoulder |-> landmarks[POSE_LANDMARKS.RIGHT_SHOULDER],
     elbow |-> landmarks[POSE_LANDMARKS.RIGHT_ELBOW],
     wrist |-> landmarks[POSE_LANDMARKS.RIGHT_WRIST],
     hip |-> landmarks[POSE_LANDMARKS.RIGHT_HIP],
     knee |-> landmarks[POSE_LANDMARKS.RIGHT_KNEE],
     ankle |-> landmarks[POSE_LANDMARKS.RIGHT_ANKLE]]
\* the sides whose measures are taken: both when both are visible, else the
\* left one when it is visible, else the right one (lines 222-238)
MeasuredSides(landmarks, sides) ==
    IF sides.left /\ sides.right THEN <<LeftSide(landmarks), RightSide(landmarks)>>
    ELSE IF sides.left THEN <<LeftSide(landmarks)>>
    ELSE <<RightSide(landmarks)>>
\* the grades of a measure taken on those sides
OfSides(perSide) == IF Len(perSide) = 2 THEN Average(perSide[1], perSide[2]) ELSE {perSide[1]}

\* grade > k: a distance or score that is exactly k after the subtraction or
\* division that computes it can come out on either side of the literal k in
\* floating point
Exceeds(grade, k) ==
    IF grade = Exactly(k) THEN {TRUE, FALSE} ELSE {grade > Exactly(k)}

\* what each check of lines 240-371 can find
ColinearityFindings(colinearityScore) ==
    {IF poor THEN "poor" ELSE IF minor THEN "minor" ELSE "good" :
        poor \in Exceeds(colinearityScore, Hundredths(25)),
        minor \in Exceeds(colinearityScore, Hundredths(15))}
\* a check of the body angle that takes 180 degrees for too much
BodyAngleFindingBelowStraight(bodyAngle) ==
    IF bodyAngle < Exactly(155) THEN "low"
    ELSE IF bodyAngle > Exactly(190) THEN "high"
    ELSE IF bodyAngle < Exactly(165) \/ bodyAngle >= Exactly(180) THEN "off"
    ELSE "good"
\* an angle is at most 180, so bodyAngle > 190 and bodyAngle > 180 are false
BodyAngleFinding(bodyAngle) ==
    IF bodyAngle < Exactly(155) THEN "low"
    ELSE IF bodyAngle > Exactly(190) THEN "high"
    ELSE IF bodyAngle < Exactly(165) \/ bodyAngle > Exactly(180) THEN "off"
    ELSE "good"
KneeAngleFinding(kneeAngle) ==
    IF kneeAngle < Exactly(160) THEN "bent"
    ELSE IF kneeAngle < Exactly(170) THEN "soft"
    ELSE "good"
ElbowAngleFinding(elbowAngle) ==
    LET isForearmPlank == elbowAngle < Exactly(130)
        isStraightArmPlank == elbowAngle > Exactly(145)
    IN IF ~isForearmPlank /\ ~isStraightArmPlank THEN "between" ELSE "good"
DistanceFindings(distance) ==
    {IF far THEN "far" ELSE "good" : far \in Exceeds(distance, Hundredths(15))}
\* avgBodyY = sum / n (lines 361-365) against 0.25 and 0.75
FramingFindings(sum, n) ==
    LET high == IF 100 * sum = 25 * n * CoordUnits THEN {TRUE, FALSE}
                ELSE {100 * sum < 25 * n * CoordUnits}
        low == IF 100 * sum = 75 * n * CoordUnits THEN {TRUE, FALSE}
               ELSE {100 * sum > 75 * n * CoordUnits}
    IN {IF h \/ l THEN "off" ELSE "good" : h \in high, l \in low}

\* every combination of findings
AllFindings ==
    [colinearity : {"poor", "minor", "good"}, bodyAngle : {"low", "high", "off", "good"},
     kneeAngle : {"bent", "soft", "good"}, elbowAngle : {"between", "good"},
     elbowShoulderDistance : {"far", "good"}, shoulderNoseDistance : {"far", "good"},
     shoulderHipLevelness : {"far", "good"}, framing : {"off", "good"}]

\* a body out of the middle of the frame costs 5 only
FramingCorrectionLighter(findings) ==
    IF findings.framing = "off"
    THEN <<[feedback |-> "Center yourself in frame", penalty |-> 5]>>
    ELSE <<>>
\* lines 368-371
FramingCorrection(findings) ==
    IF findings.framing = "off"
    THEN <<[feedback |-> "Center yourself in frame", penalty |-> 10]>>
    ELSE <<>>

\* the message pushed and the confidence taken off for the findings, in the
\* order of the checks (lines 242-371)
Corrections(findings) ==
    (CASE findings.colinearity = "poor" ->
              <<[feedback |-> "Keep your core tight - straighten your body", penalty |-> 30]>>
       [] findings.colinearity = "minor" ->
              <<[feedback |-> "Minor body curve - engage core more", penalty |-> 15]>>
       [] OTHER -> <<>>) \o
    (CASE findings.bodyAngle = "low" ->
              <<[feedback |-> "Lift your hips higher", penalty |-> 35]>>
       [] findings.bodyAngle = "high" ->
              <<[feedback |-> "Lower your hips - avoid sagging", penalty |-> 35]>>
       [] findings.bodyAngle = "off" ->
              <<[feedback |-> "Adjust hips for straighter alignment", penalty |-> 20]>>
       [] OTHER -> <<>>) \o
    (CASE findings.kneeAngle = "bent" ->
              <<[feedback |-> "Straighten your legs completely", penalty |-> 25]>>
       [] findings.kneeAngle = "soft" ->
              <<[feedback |-> "Legs could be straighter", penalty |-> 10]>>
       [] OTHER -> <<>>) \o
    (IF findings.elbowAngle = "between"
     THEN <<[feedback |-> "Choose forearm or straight-arm plank", penalty |-> 20]>>
     ELSE <<>>) \o
    (IF findings.elbowShoulderDistance = "far"
     THEN <<[feedback |-> "Position arms under shoulders", penalty |-> 15]>>
     ELSE <<>>) \o
    (IF findings.shoulderNoseDistance = "far"
     THEN <<[feedback |-> "Keep head in neutral position", penalty |-> 10]>>
     ELSE <<>>) \o
    (IF findings.shoulderHipLevelness = "far"
     THEN <<[feedback |-> "Keep body parallel to ground", penalty |-> 15]>>
     ELSE <<>>) \o
    FramingCorrection(findings)

\* a verdict that needs more than 60
JudgeAboveSixty(confidence, feedback) == confidence > 60 /\ Len(feedback) <= 3
\* line 375
Judge(confidence, feedback) == confidence >= 60 /\ Len(feedback) <= 3

\* a result whose confidence is not kept from falling below 0
ScoreWithoutFloor(findings, landmarks) ==
    LET corrections == Corrections(findings)
        feedback == [i \in 1..Len(corrections) |-> corrections[i].feedback]
        confidence == 100 - Sum([i \in 1..Len(corrections) |-> corrections[i].penalty])
        isPlank == Judge(confidence, feedback)
        positive == IF isPlank /\ confidence >= 85 THEN <<"Perfect plank form!">>
                    ELSE IF isPlank /\ confidence >= 70
                    THEN <<"Good plank position - keep it up!">>
                    ELSE IF isPlank THEN <<"Plank detected - maintain form">>
                    ELSE <<>>
    IN [isPlank |-> isPlank, confidence |-> confidence,
        feedback |-> positive \o feedback, landmarks |-> landmarks,
        penalized |-> confidence, corrective |-> Len(feedback), findings |-> findings]

\* lines 190-191, 240-391: the result for the findings.  penalized is the
\* confidence before Math.max(0, .) and corrective the number of messages
\* before the positive one is put in front; neither is part of the value
\* returned.
Score(findings, landmarks) ==
    LET corrections == Corrections(findings)
        feedback == [i \in 1..Len(corrections) |-> corrections[i].feedback]
        confidence == 100 - Sum([i \in 1..Len(corrections) |-> corrections[i].penalty])
        isPlank == Judge(confidence, feedback)
        positive == IF isPlank /\ confidence >= 85 THEN <<"Perfect plank form!">>
                    ELSE IF isPlank /\ confidence >= 70
                    THEN <<"Good plank position - keep it up!">>
                    ELSE IF isPlank THEN <<"Plank detected - maintain form">>
                    ELSE <<>>
    IN [isPlank |-> isPlank, confidence |-> Max(0, confidence),
        feedback |-> positive \o feedback, landmarks |-> landmarks,
        penalized |-> confidence, corrective |-> Len(feedback), findings |-> findings]

\* an array without landmarks
NoLandmarks == [idx \in {} |-> undefined]
\* lines 181-188
NotVisibleResult(landmarks) ==
    [isPlank |-> FALSE, confidence |-> 0,
     feedback |-> <<"Position yourself sideways to camera. Show full body from head to feet.">>,
     landmarks |-> landmarks]
\* reading .x of an elbow or wrist that the array does not have (lines 58, 293)
TypeErrorThrown == [throws |-> "TypeError"]

\* the findings the checks can make on the visible landmarks (lines 194-371)
Findings(landmarks) ==
    LET sides == checkSideVisibility(landmarks, MinVisibility)
        nose == landmarks[POSE_LANDMARKS.NOSE]
        measured == MeasuredSides(landmarks, sides)
        each(measure(_)) == [i \in 1..Len(measured) |-> measure(measured[i])]
        bodyAngle(s) == calculateAngle(s.shoulder, s.hip, s.ankle)
        colinearity(s) == calculateColinearity(s.shoulder, s.hip, s.ankle)
        kneeAngle(s) == calculateAngle(s.hip, s.knee, s.ankle)
        elbowAngle(s) == calculateAngle(s.shoulder, s.elbow, s.wrist)
        elbowDist(s) == Exactly(Abs(s.elbow.x - s.shoulder.x))
        shoulderNoseDist(s) == Exactly(Abs(s.shoulder.y - nose.y))
        levelness(s) == Exactly(Abs(s.shoulder.y - s.hip.y))
        bodyY(s) == s.shoulder.y + s.hip.y + s.ankle.y
    IN UNION {UNION {UNION {UNION {UNION {UNION {UNION {
           {[colinearity |-> c, bodyAngle |-> BodyAngleFinding(b),
             kneeAngle |-> KneeAngleFinding(k), elbowAngle |-> ElbowAngleFinding(e),
             elbowShoulderDistance |-> d, shoulderNoseDistance |-> h,
             shoulderHipLevelness |-> l, framing |-> f] :
               f \in FramingFindings(Sum(each(bodyY)), 3 * Len(measured))} :
               l \in UNION {DistanceFindings(g) : g \in OfSides(each(levelness))}} :
               h \in UNION {DistanceFindings(g) : g \in OfSides(each(shoulderNoseDist))}} :
               d \in UNION {DistanceFindings(g) : g \in OfSides(each(elbowDist))}} :
               e \in OfSides(each(elbowAngle))} :
               k \in OfSides(each(kneeAngle))} :
               b \in OfSides(each(bodyAngle))} :
               c \in UNION {ColinearityFindings(g) : g \in OfSides(each(colinearity))}}

\* detectPlankPosition (lines 179-392): the results it can return for the
\* landmarks
detectPlankPosition(landmarks) ==
    IF ~areLandmarksVisible(landmarks, MinVisibility) THEN {NotVisibleResult(landmarks)}
    ELSE LET measured == MeasuredSides(landmarks, checkSideVisibility(landmarks, MinVisibility))
         IN IF \E i \in 1..Len(measured) :
                   measured[i].elbow = undefined \/ measured[i].wrist = undefined
            THEN {TypeErrorThrown}
            ELSE {Score(findings, landmarks) : findings \in Findings(landmarks)}

\* a point of the grid and the landmark at it
Point(x, y) == [x |-> x, y |-> y]
Plus(p, q) == Point(p.x + q.x, p.y + q.y)
At(p, visibility) == Landmark(p.x, p.y, 0, visibility)
\* the landmarks of one side of a body: the shoulder, and each other joint by
\* its offset from the joint before it (the knee from the middle of the leg)
Body(shoulder, toHip, toAnkle, kneeOff, toElbow, toWrist) ==
    LET hip == Plus(shoulder, toHip)
        elbow == Plus(shoulder, toElbow)
    IN [shoulder |-> shoulder, hip |-> hip, ankle |-> Plus(hip, toAnkle),
        knee |-> Plus(Plus(hip, Point(toAnkle.x \div 2, toAnkle.y \div 2)), kneeOff),
        elbow |-> elbow, wrist |-> Plus(elbow, toWrist)]
Joints == {"shoulder", "elbow", "wrist", "hip", "knee", "ankle"}
LeftIndex == [shoulder |-> POSE_LANDMARKS.LEFT_SHOULDER, elbow |-> POSE_LANDMARKS.LEFT_ELBOW,
              wrist |-> POSE_LANDMARKS.LEFT_WRIST, hip |-> POSE_LANDMARKS.LEFT_HIP,
              knee |-> POSE_LANDMARKS.LEFT_KNEE, ankle |-> POSE_LANDMARKS.LEFT_ANKLE]
RightIndex == [shoulder |-> POSE_LANDMARKS.RIGHT_SHOULDER, elbow |-> POSE_LANDMARKS.RIGHT_ELBOW,
               wrist |-> POSE_LANDMARKS.RIGHT_WRIST, hip |-> POSE_LANDMARKS.RIGHT_HIP,
               knee |-> POSE_LANDMARKS.RIGHT_KNEE, ankle |-> POSE_LANDMARKS.RIGHT_ANKLE]
\* how a landmark can be given: in full view, at the least visibility that
\* counts, below it, with visibility 0, without a visibility, or not at all
\* (landmarks[idx] is undefined)
Seen == {"full", "least", "below", "zero", "blank", "missing"}
Given(p, seen) ==
    CASE seen = "full" -> At(p, CoordUnits)
      [] seen = "least" -> At(p, MinVisibility)
      [] seen = "below" -> At(p, MinVisibility - 1)
      [] seen = "zero" -> At(p, 0)
      [] seen = "blank" -> [x |-> p.x, y |-> p.y, z |-> 0]
      [] OTHER -> undefined
\* the landmarks array of a nose and two sides, each joint given as seen says
PoseOf(nose, noseSeen, left, leftSeen, right, rightSeen) ==
    LET given(idx) ==
            IF idx = POSE_LANDMARKS.NOSE THEN Given(nose, noseSeen)
            ELSE IF \E j \in Joints : LeftIndex[j] = idx
            THEN LET j == CHOOSE k \in Joints : LeftIndex[k] = idx
                 IN Given(left[j], leftSeen[j])
            ELSE LET j == CHOOSE k \in Joints : RightIndex[k] = idx
                 IN Given(right[j], rightSeen[j])
        indices == {POSE_LANDMARKS.NOSE} \cup {LeftIndex[j] : j \in Joints}
                       \cup {RightIndex[j] : j \in Joints}
    IN [idx \in indices |-> given(idx)]

\* a call detectPlankPosition(landmarks) to be made
ScoreCall(landmarks) == [fn |-> "detectPlankPosition", landmarks |-> landmarks, result |-> None]

\* the scoring to be applied to one combination of findings
ScoreFindings(findings) ==
    [fn |-> "score", findings |-> findings, landmarks |-> NoLandmarks, result |-> None]

\* bodies seen from the side, head to the left: the shoulder, a torso, a leg with
\* the knee on it or off it, and an arm
Shoulders == {Point(1, 4), Point(1, 6)}
Torsos == {Point(2, 0), Point(6, 0), Point(6, 4)}
Legs == {Point(12, 0), Point(12, 2), Point(12, 4), Point(12, 10)}
Knees == {Point(0, 0), Point(0, 0 - 1), Point(0, 0 - 2)}
Arms == {<<Point(0, 2), Point(0, 2)>>, <<Point(0, 2), Point(2, 1)>>,
         <<Point(0, 2), Point(2, 0)>>, <<Point(4, 2), Point(0 - 4, 0)>>}
Bodies(shoulder) ==
    {Body(shoulder, toHip, toAnkle, kneeOff, arm[1], arm[2]) :
        toHip \in Torsos, toAnkle \in Legs, kneeOff \in Knees, arm \in Arms}
Noses(shoulder) == {Plus(shoulder, Point(0 - 1, 0)), Plus(shoulder, Point(0 - 1, 0 - 4))}
AllSeen(seen) == [j \in Joints |-> seen]
\* the other side of a body: the same, or with the ankle elsewhere
OtherSides(body) ==
    {body} \cup {[body EXCEPT !.ankle = Plus(body.hip, toAnkle)] : toAnkle \in Legs}
\* the poses of a body: one side in view and the other hidden, or both in view
GeometryPoses(shoulder) ==
    UNION {UNION {
        {PoseOf(nose, "full", body, AllSeen("full"), body, AllSeen("zero")),
         PoseOf(nose, "full", body, AllSeen("missing"), body, AllSeen("full"))}
        \cup {PoseOf(nose, "full", body, AllSeen("full"), other, AllSeen("full")) :
                  other \in OtherSides(body)} :
        nose \in Noses(shoulder)} : body \in Bodies(shoulder)}
\* a straight body under every way its landmarks can be given: the nose, and on
\* each side any of the four joints the visibility check reads, or the arm
StraightBody == Body(Point(1, 9), Point(6, 0), Point(12, 0), Point(0, 0), Point(0, 2), Point(0, 2))
CheckedJoints == {"shoulder", "hip", "knee", "ankle"}
SeenSides(unseen) ==
    {[j \in Joints |-> IF j \in hidden THEN unseen ELSE "full"] :
        hidden \in (SUBSET CheckedJoints) \cup {{"elbow"}, {"wrist"}}}
VisibilityPoses(noseSeen) ==
    {PoseOf(Point(0, 9), noseSeen, StraightBody, leftSeen, StraightBody, rightSeen) :
        leftSeen \in UNION {SeenSides(unseen) : unseen \in Seen \ {"full"}},
        rightSeen \in SeenSides("missing") \cup SeenSides("least")}

\* the scoring of lines 240-391 applied to one combination of findings
ScoreFindingsCall ==
    /\ call.fn = "score"
    /\ call.result = None
    /\ call' = [call EXCEPT !.result = Some(Score(call.findings, call.landmarks))]
    /\ Record("score", "none")
    /\ UNCHANGED <<stabilityFrames, gracePeriodFrames, deviceLatencies, frameLandmarks,
                   hookVars, trackerVars, samplerVars, resultVars, loaderVars, now>>

\* a call of detectPlankPosition (part_008 lines 179-392)
DetectPlankPositionCall ==
    /\ call.fn = "detectPlankPosition"
    /\ call.result = None
    /\ \E result \in detectPlankPosition(call.landmarks) :
          call' = [call EXCEPT !.result = Some(result)]
    /\ Record("detectPlankPosition", "none")
    /\ UNCHANGED <<stabilityFrames, gracePeriodFrames, deviceLatencies, frameLandmarks,
                   hookVars, trackerVars, samplerVars, resultVars, loaderVars, now>>

(* ---------------------------- mediapipeLoader -------------------------- *)
LoadIds == 1..MaxLoads
Tickets == [how : {"cached", "pending", "started"}, awaits : {NULL} \cup LoadIds,
            value : {NULL} \cup LoadIds]
\* an acquisition is "loading" from its start to the end of its three awaits
\* (lines 34, 40, 45): nothing reads how far it has got
InFlight(a) == loads[a] = "loading"
Settled(a) == loads[a] \in {"fulfilled", "rejected"}
UnusedLoads == {a \in LoadIds : loads[a] = "unused"}

\* the synchronous part of loadPoseLandmarker() (lines 18-31, 70): what the caller's
\* promise follows, and the loader state it leaves.  The result is
\* [how |-> the return taken; awaits |-> acquisition followed, or NULL;
\*  value |-> instance returned, or NULL]
LoadReturnsCached == poseLandmarkerInstance # NULL
\* a loader that never hands out the pending promise
LoadNeverReturnsPending == FALSE
LoadReturnsPending == poseLandmarkerInstance = NULL /\ isLoading /\ loadPromise # NULL
LoadPoseLandmarker(ticket) ==
    IF LoadReturnsCached
    THEN /\ ticket = [how |-> "cached", awaits |-> NULL, value |-> poseLandmarkerInstance]
         /\ UNCHANGED <<isLoading, loadPromise, loads>>
    ELSE IF LoadReturnsPending
    THEN /\ ticket = [how |-> "pending", awaits |-> loadPromise, value |-> NULL]
         /\ UNCHANGED <<isLoading, loadPromise, loads>>
    ELSE \E a \in UnusedLoads :
         /\ a = CHOOSE x \in UnusedLoads : \A y \in UnusedLoads : x <= y
         /\ ticket = [how |-> "started", awaits |-> a, value |-> NULL]
         /\ isLoading' = TRUE
         /\ loadPromise' = a
         /\ loads' = [loads EXCEPT ![a] = "loading"]

\* lines 34-62: the awaits resolve, createFromOptions with a new instance, which
\* is cached
LoadSucceeds(a) ==
    /\ InFlight(a)
    /\ loads' = [loads EXCEPT ![a] = "fulfilled"]
    /\ poseLandmarkerInstance' = a
    /\ isLoading' = FALSE
    /\ RecordOn("loadSucceeds", "none", a)
    /\ UNCHANGED <<configVars, hookVars, trackerVars, samplerVars, resultVars, now,
                   loadPromise, closed, preloadsPending>>

\* lines 63-67: one of the three awaits rejects
LoadFails(a) ==
    /\ InFlight(a)
    /\ loads' = [loads EXCEPT ![a] = "rejected"]
    /\ isLoading' = FALSE
    /\ loadPromise' = NULL
    /\ RecordOn("loadFails", "none", a)
    /\ UNCHANGED <<configVars, hookVars, trackerVars, samplerVars, resultVars, now,
                   poseLandmarkerInstance, closed, preloadsPending>>

\* the calls of cleanupPoseLandmarker() are capped at MaxCleanups, not counting
\* those that repeat a call at once
CanCleanup ==
    \/ hist.cleanups < MaxCleanups
    \/ lastOp = "cleanup"

\* cleanupPoseLandmarker() that closes the instance and keeps it cached
CleanupKeepsInstance ==
    /\ CanCleanup
    /\ IF poseLandmarkerInstance # NULL
       THEN closed' = [closed EXCEPT ![poseLandmarkerInstance] = @ + 1]
       ELSE UNCHANGED closed
    /\ isLoading' = FALSE
    /\ loadPromise' = NULL
    /\ Record("cleanup", "none")
    /\ UNCHANGED <<configVars, hookVars, trackerVars, samplerVars, resultVars, now,
                   poseLandmarkerInstance, loads, preloadsPending>>

\* cleanupPoseLandmarker() (lines 77-88)
CleanupPoseLandmarker ==
    /\ CanCleanup
    /\ IF poseLandmarkerInstance # NULL
       THEN /\ closed' = [closed EXCEPT ![poseLandmarkerInstance] = @ + 1]
            /\ poseLandmarkerInstance' = NULL
       ELSE UNCHANGED <<closed, poseLandmarkerInstance>>
    /\ isLoading' = FALSE
    /\ loadPromise' = NULL
    /\ Record("cleanup", "none")
    /\ UNCHANGED <<configVars, hookVars, trackerVars, samplerVars, resultVars, now,
                   loads, preloadsPending>>

\* preloadPoseLandmarker() (lines 101-119): schedules a callback, or does nothing
PreloadPoseLandmarker ==
    /\ preloadsPending < MaxPreloads
    /\ IF poseLandmarkerInstance = NULL /\ ~isLoading
       THEN preloadsPending' = preloadsPending + 1 /\ Record("preload", "none")
       ELSE preloadsPending' = preloadsPending /\ Record("preloadSkipped", "none")
    /\ UNCHANGED <<configVars, hookVars, trackerVars, samplerVars, resultVars, now,
                   poseLandmarkerInstance, isLoading, loadPromise, loads, closed>>

\* the scheduled callback runs: loadPoseLandmarker().catch(...) (lines 105-108, 112-116)
PreloadCallback ==
    /\ preloadsPending > 0
    /\ preloadsPending' = preloadsPending - 1
    /\ \E ticket \in Tickets : LoadPoseLandmarker(ticket)
    /\ Record("preloadCallback", "none")
    /\ UNCHANGED <<configVars, hookVars, trackerVars, samplerVars, resultVars, now,
                   poseLandmarkerInstance, closed>>

(* ----------------------- usePoseDetection: lifecycle ------------------- *)
EffectIds == 1..MaxEffects
NoEffect == [pc |-> "unused", mounted |-> FALSE, how |-> "none", awaits |-> NULL,
             value |-> NULL]
StartedEffects == {g \in EffectIds : effects[g].pc # "unused"}

\* the effect body (lines 90-117) when enableDetection becomes true: it runs
\* initializePoseLandmarker up to its await of loadPoseLandmarker()
EnableDetection ==
    /\ ~enableDetection
    /\ enableDetection' = TRUE
    /\ \E g \in EffectIds \ StartedEffects, ticket \in Tickets :
          /\ g = Cardinality(StartedEffects) + 1
          /\ LoadPoseLandmarker(ticket)
          /\ effects' = [effects EXCEPT ![g] = [pc |-> "awaiting", mounted |-> TRUE,
                                                 how |-> ticket.how,
                                                 awaits |-> ticket.awaits,
                                                 value |-> ticket.value]]
          /\ RecordOn("enable", "none", g)
    /\ isProcessing' = TRUE
    /\ UNCHANGED <<configVars, isReady, error, detectionResult, poseLandmarkerRef,
                   trackerVars, samplerVars, resultVars, now,
                   poseLandmarkerInstance, closed, preloadsPending>>

\* the effect's cleanup (lines 119-130): enableDetection becomes false, or unmount
DisableDetection ==
    /\ enableDetection
    /\ enableDetection' = FALSE
    /\ effects' = [g \in EffectIds |-> [effects[g] EXCEPT !.mounted = FALSE]]
    /\ lastResultRef' = None
    /\ poseLandmarkerRef' = NULL
    /\ Record("disable", "none")
    /\ UNCHANGED <<configVars, isReady, isProcessing, error, detectionResult,
                   smoothedLandmarksRef, trackerVars, samplerVars, loaderVars, now>>

\* a resolved load that is stored without the test of mounted at line 102
InitResolvesWhenUnmounted(g) ==
    /\ effects[g].pc = "awaiting"
    /\ \/ effects[g].awaits = NULL
       \/ effects[g].awaits # NULL /\ loads[effects[g].awaits] = "fulfilled"
    /\ effects' = [effects EXCEPT ![g].pc = "resolved"]
    /\ poseLandmarkerRef' = IF effects[g].awaits = NULL THEN effects[g].value
                                                        ELSE effects[g].awaits
    /\ isReady' = TRUE
    /\ isProcessing' = FALSE
    /\ RecordOn("initResolves", "none", g)
    /\ UNCHANGED <<configVars, error, detectionResult, enableDetection, trackerVars,
                   samplerVars, resultVars, loaderVars, now>>

\* lines 101-107: the awaited load resolved with an instance
InitResolves(g) ==
    /\ effects[g].pc = "awaiting"
    /\ \/ effects[g].awaits = NULL
       \/ effects[g].awaits # NULL /\ loads[effects[g].awaits] = "fulfilled"
    /\ effects' = [effects EXCEPT ![g].pc = "resolved"]
    /\ IF effects[g].mounted
       THEN /\ poseLandmarkerRef' = IF effects[g].awaits = NULL THEN effects[g].value
                                                                 ELSE effects[g].awaits
            /\ isReady' = TRUE
            /\ isProcessing' = FALSE
       ELSE UNCHANGED <<poseLandmarkerRef, isReady, isProcessing>>
    /\ RecordOn("initResolves", "none", g)
    /\ UNCHANGED <<configVars, error, detectionResult, enableDetection, trackerVars,
                   samplerVars, resultVars, loaderVars, now>>

\* lines 108-114: the awaited load rejected
InitRejects(g) ==
    /\ effects[g].pc = "awaiting"
    /\ effects[g].awaits # NULL /\ loads[effects[g].awaits] = "rejected"
    /\ effects' = [effects EXCEPT ![g].pc = "rejected"]
    /\ IF effects[g].mounted
       THEN /\ error' = Some("Failed to load pose detection. Please refresh the page.")
            /\ isProcessing' = FALSE
       ELSE UNCHANGED <<error, isProcessing>>
    /\ RecordOn("initRejects", "none", g)
    /\ UNCHANGED <<configVars, isReady, detectionResult, poseLandmarkerRef, enableDetection,
                   trackerVars, samplerVars, resultVars, loaderVars, now>>

(* --------------------------- specifications ---------------------------- *)
\* the hook as constructed (lines 71-87) and the loader as loaded (lines 10-12)
InitFresh ==
    /\ enableDetection = FALSE
    /\ isReady = FALSE
    /\ isProcessing = FALSE
    /\ error = None
    /\ detectionResult = None
    /\ poseLandmarkerRef = NULL
    /\ plankDetectedCountRef = 0
    /\ plankLostCountRef = 0
    /\ isPlankActiveRef = FALSE
    /\ frameTimeSinceLastDetection = now
    /\ lastResultRef = None
    /\ smoothedLandmarksRef = None
    /\ detectionDurationsRef = <<>>
    /\ currentFpsRef = maxFps
    /\ frameTimeThresholdRef = [num |-> 1000, den |-> maxFps]
    /\ effects = [g \in EffectIds |-> NoEffect]
    /\ poseLandmarkerInstance = NULL
    /\ isLoading = FALSE
    /\ loadPromise = NULL
    /\ loads = [a \in LoadIds |-> "unused"]
    /\ closed = [a \in LoadIds |-> 0]
    /\ preloadsPending = 0
    /\ lastOp = "init"
    /\ fired = "none"
    /\ hist = HistInit

InitConfig ==
    /\ stabilityFrames \in 1..MaxStabilityFrames
    /\ gracePeriodFrames \in 1..MaxGraceFrames
    /\ deviceLatencies \in DeviceProfiles
    /\ frameLandmarks = StillCamera
    /\ call = NoCall
    /\ now \in {0, TimeCap}

Init == InitConfig /\ InitFresh

LoaderNext ==
    \/ \E a \in LoadIds : LoadSucceeds(a)
    \/ \E a \in LoadIds : LoadFails(a)
    \/ CleanupPoseLandmarker
    \/ PreloadPoseLandmarker
    \/ PreloadCallback

LifecycleNext ==
    \/ EnableDetection
    \/ DisableDetection
    \/ \E g \in EffectIds : InitResolves(g)
    \/ \E g \in EffectIds : InitRejects(g)

FrameNext ==
    \/ DetectPoseNotReady
    \/ DetectPoseThrottled
    \/ DetectPosePerson
    \/ DetectPoseNoPerson
    \/ DetectPoseThrows
    \/ Reset
    \/ Tick

Next == LoaderNext \/ LifecycleNext \/ FrameNext

\* the whole system: the loader, the hook's effect and the frames of a session
Spec == Init /\ [][Next]_vars

\* a session whose first effect run has acquired the detector: the state after
\* EnableDetection, LoadSucceeds(1) and InitResolves(1)
InitReady ==
    /\ enableDetection = TRUE
    /\ isReady = TRUE
    /\ isProcessing = FALSE
    /\ error = None
    /\ detectionResult = None
    /\ poseLandmarkerRef = 1
    /\ plankDetectedCountRef = 0
    /\ plankLostCountRef = 0
    /\ isPlankActiveRef = FALSE
    /\ frameTimeSinceLastDetection = now
    /\ lastResultRef = None
    /\ smoothedLandmarksRef = None
    /\ detectionDurationsRef = <<>>
    /\ currentFpsRef = maxFps
    /\ frameTimeThresholdRef = [num |-> 1000, den |-> maxFps]
    /\ effects = [g \in EffectIds |->
                    IF g = 1 THEN [pc |-> "resolved", mounted |-> TRUE, how |-> "started",
                                   awaits |-> 1, value |-> NULL]
                             ELSE NoEffect]
    /\ poseLandmarkerInstance = 1
    /\ isLoading = FALSE
    /\ loadPromise = 1
    /\ loads = [a \in LoadIds |-> IF a = 1 THEN "fulfilled" ELSE "unused"]
    /\ closed = [a \in LoadIds |-> 0]
    /\ preloadsPending = 0
    /\ lastOp = "initResolves"
    /\ fired = "none"
    /\ hist = [HistInit EXCEPT !.arg = 1]

\* the frames of one session, ready or not, on every configuration
SessionInit == InitConfig /\ (InitFresh \/ InitReady)
SpecSession == SessionInit /\ [][FrameNext]_vars

\* the loader and the effect runs of the hook, on one configuration
LoaderInit ==
    /\ stabilityFrames = 1
    /\ gracePeriodFrames = 1
    /\ deviceLatencies = {20}
    /\ frameLandmarks = StillCamera
    /\ call = NoCall
    /\ now = 0
    /\ InitFresh
SpecLoader == LoaderInit /\ [][LoaderNext \/ LifecycleNext]_vars

\* calls of detectPlankPosition, outside any session
ScorerInit ==
    /\ stabilityFrames = 1
    /\ gracePeriodFrames = 1
    /\ deviceLatencies = FastDevice
    /\ frameLandmarks = StillCamera
    /\ \/ \E shoulder \in Shoulders : \E landmarks \in GeometryPoses(shoulder) :
              call = ScoreCall(landmarks)
       \/ \E noseSeen \in Seen : \E landmarks \in VisibilityPoses(noseSeen) :
              call = ScoreCall(landmarks)
       \/ \E findings \in AllFindings : call = ScoreFindings(findings)
    /\ now = 0
    /\ InitFresh
SpecScorer == ScorerInit /\ [][DetectPlankPositionCall \/ ScoreFindingsCall]_vars

\* calls of smoothLandmarks, outside any session
SmootherInit ==
    /\ stabilityFrames = 1
    /\ gracePeriodFrames = 1
    /\ deviceLatencies = FastDevice
    /\ frameLandmarks = StillCamera
    /\ \E currentLandmarks \in CurrentArrays : call \in SmoothCalls(currentLandmarks)
    /\ now = 0
    /\ InitFresh
SpecSmoother == SmootherInit /\ [][SmoothLandmarksCall]_vars

\* the frames of a ready session in front of a person who moves
SmoothingInit ==
    /\ stabilityFrames = 1
    /\ gracePeriodFrames = 1
    /\ deviceLatencies = SlowDevice
    /\ frameLandmarks = MovingCamera
    /\ call = NoCall
    /\ now = TimeCap
    /\ InitReady
SpecSmoothing == SmoothingInit /\ [][FrameNext]_vars

\* the frames of a ready session on the devices that exercise the sampler
SamplerInit ==
    /\ stabilityFrames = 1
    /\ gracePeriodFrames = 1
    /\ deviceLatencies \in SamplerProfiles
    /\ frameLandmarks = StillCamera
    /\ call = NoCall
    /\ now = TimeCap
    /\ InitReady
SpecSampler == SamplerInit /\ [][FrameNext \/ DeviceSlowsDown]_vars

\* detectPose runs the detection, whatever comes of it
DetectPoseRuns == DetectPosePerson \/ DetectPoseNoPerson \/ DetectPoseThrows
\* lines 135, 142: a call of detectPose made now would run the detection
Admitted == CanDetect(TRUE) /\ ~Throttled
\* the frame loop keeps calling detectPose: a detection that stays admitted
\* does run (weak fairness of DetectPoseRuns, its enabling condition written out)
DetectPoseKeepsBeingCalled == []<>(~Admitted) \/ []<><<DetectPoseRuns>>_vars
\* the frames of a ready session whose frame loop goes on for ever: time passes
\* (the timestamps grow without bound) and detectPose keeps being called
LoopInit ==
    /\ stabilityFrames \in {1, MaxStabilityFrames}
    /\ gracePeriodFrames \in {1, MaxGraceFrames}
    /\ deviceLatencies = SlowDevice
    /\ frameLandmarks = StillCamera
    /\ call = NoCall
    /\ now = 0
    /\ InitReady
SpecLoop ==
    LoopInit /\ [][FrameNext]_vars /\ WF_vars(Tick) /\ DetectPoseKeepsBeingCalled

\* a ready session whose detection is disabled and enabled again between its
\* frames (the loader keeps the instance, so the new effect run gets the cached
\* one), on one configuration
TeardownInit ==
    /\ stabilityFrames = 1
    /\ gracePeriodFrames = 1
    /\ deviceLatencies = {100}
    /\ frameLandmarks = StillCamera
    /\ call = NoCall
    /\ now = TimeCap
    /\ InitReady
TeardownNext ==
    \/ FrameNext
    \/ EnableDetection
    \/ DisableDetection
    \/ \E g \in EffectIds : InitResolves(g)
SpecTeardown == TeardownInit /\ [][TeardownNext]_vars

(* ------------------------- the stability filter ------------------------ *)
\* C1: from Idle with both counters at 0, a run of valid frames invokes
\* onPlankDetected exactly once, on the frame that brings the count of valid
\* frames to stabilityFrames; the valid frames after it invoke nothing.
C1_StartedExactlyOnce ==
    hist.freshRun >= 0 =>
        /\ hist.runFired = (IF hist.freshRun >= stabilityFrames THEN 1 ELSE 0)
        /\ (fired = "onPlankDetected" =>
                hist.freshRun = stabilityFrames /\ plankDetectedCountRef = stabilityFrames)
        /\ (lastOp = "valid" /\ hist.freshRun = stabilityFrames => fired = "onPlankDetected")

\* two valid frames past the threshold, one event
C1_Witness ==
    /\ hist.freshRun >= stabilityFrames + 2
    /\ hist.runFired = 1
    /\ lastOp = "valid"

\* C2: onPlankDetected is invoked only by a valid frame that completes a run of
\* at least stabilityFrames consecutive valid frames processed while Idle; an
\* invalid or no-person frame puts plankDetectedCountRef back to 0 and invokes no
\* onPlankDetected.
C2_StartedOnlyAfterFullRun ==
    /\ fired = "onPlankDetected" =>
          /\ lastOp = "valid"
          /\ ~hist.prev.active
          /\ hist.validRun >= stabilityFrames
    /\ lastOp \in {"invalid", "noPerson"} =>
          /\ plankDetectedCountRef = 0
          /\ hist.validRun = 0
          /\ fired # "onPlankDetected"

\* a hold that starts again after one was lost
C2_Witness ==
    /\ fired = "onPlankDetected"
    /\ hist.prev.lastEvent = "onPlankLost"
    /\ stabilityFrames > 1

\* C3: onPlankLost is invoked only by an invalid or no-person frame that
\* completes a run of at least gracePeriodFrames such frames during an Active
\* hold; a valid frame during an Active hold invokes nothing, keeps the hold and
\* puts plankLostCountRef back to 0.
C3_LostOnlyAfterGrace ==
    /\ fired = "onPlankLost" =>
          /\ lastOp \in {"invalid", "noPerson"}
          /\ hist.prev.active
          /\ hist.invalidRun >= gracePeriodFrames
    /\ lastOp = "valid" /\ hist.prev.active =>
          /\ isPlankActiveRef
          /\ plankLostCountRef = 0
          /\ fired = "none"

\* a valid frame that interrupts a grace period
C3_Witness ==
    /\ lastOp = "valid"
    /\ hist.prev.active
    /\ hist.prev.lost >= 1
    /\ hist.prev.lost < gracePeriodFrames

\* C4: at most one of plankDetectedCountRef and plankLostCountRef is non-zero.
C4_OneCounterNonZero == plankDetectedCountRef = 0 \/ plankLostCountRef = 0

\* a counter that takes over from the other
C4_Witness ==
    /\ lastOp = "valid"
    /\ hist.prev.lost > 0
    /\ plankDetectedCountRef > 0

\* C5: a frame invokes onPlankDetected exactly when it takes the hold from Idle
\* to Active and onPlankLost exactly when it takes it from Active to Idle; no
\* other operation invokes a callback; without reset() the callbacks alternate,
\* starting with onPlankDetected.
C5_CallbacksFollowTransitions ==
    /\ fired = "onPlankDetected" <=>
          (lastOp \in FrameOps /\ ~hist.prev.active /\ isPlankActiveRef)
    /\ fired = "onPlankLost" <=>
          (lastOp \in FrameOps /\ hist.prev.active /\ ~isPlankActiveRef)
    /\ lastOp \notin FrameOps /\ lastOp # "reset" => isPlankActiveRef = hist.prev.active
    /\ ~hist.everReset /\ fired # "none" =>
          /\ fired # hist.prev.lastEvent
          /\ hist.prev.lastEvent = "none" => fired = "onPlankDetected"
    /\ ~hist.everReset => (isPlankActiveRef <=> hist.lastEvent = "onPlankDetected")

\* a hold started and lost again, with no reset
C5_Witness ==
    /\ fired = "onPlankLost"
    /\ hist.prev.lastEvent = "onPlankDetected"
    /\ ~hist.everReset

(* ------------------------- failed detections --------------------------- *)
\* C6 as stated: a detection that throws counts as a frame without a person
\* (plankLostCountRef incremented, plankDetectedCountRef reset, the hold lost at
\* gracePeriodFrames).
C6_ThrowCountsAsNoPerson ==
    lastOp = "throw" =>
        /\ plankLostCountRef = hist.prev.lost + 1
        /\ plankDetectedCountRef = 0
        /\ (hist.prev.active /\ hist.prev.lost + 1 >= gracePeriodFrames => ~isPlankActiveRef)

\* C6 amended: a detection that throws is skipped by the stability filter: both
\* counters and the hold are as before the call and no callback is invoked.
C6_ThrowIsSkipped ==
    lastOp = "throw" =>
        /\ plankLostCountRef = hist.prev.lost
        /\ plankDetectedCountRef = hist.prev.detected
        /\ isPlankActiveRef = hist.prev.active
        /\ fired = "none"

\* a throw on the frame at which a frame without a person would have lost the hold
C6_Witness ==
    /\ lastOp = "throw"
    /\ hist.prev.active
    /\ hist.prev.lost + 1 >= gracePeriodFrames
    /\ isPlankActiveRef

\* C7: a detection that throws is caught: it leaves the hold as it was, invokes
\* no callback, records the error and leaves the session able to detect; the
\* hold ends only by reset() or by a frame that completes gracePeriodFrames
\* consecutive invalid or no-person frames.
C7_ThrowNeverEndsHold ==
    /\ lastOp = "throw" =>
          /\ isPlankActiveRef = hist.prev.active
          /\ fired = "none"
          /\ error # None
          /\ CanDetect(TRUE)
    /\ hist.prev.active /\ ~isPlankActiveRef =>
          \/ lastOp = "reset"
          \/ lastOp \in {"invalid", "noPerson"} /\ hist.invalidRun >= gracePeriodFrames

\* a throw in the middle of a grace period, the hold still Active
C7_Witness ==
    /\ lastOp = "throw"
    /\ isPlankActiveRef
    /\ hist.invalidRun >= 1
    /\ hist.invalidRun < gracePeriodFrames

(* ------------------------------ the loader ----------------------------- *)
NotFailed == {a \in LoadIds : loads[a] \in {"loading", "fulfilled"}}
Created == {a \in LoadIds : loads[a] = "fulfilled"}
Live == {a \in Created : closed[a] = 0}

\* C8: as long as cleanupPoseLandmarker has not been called, at most one
\* acquisition is in flight or has succeeded, so at most one PoseLandmarker is
\* created; it is the one loadPromise names and, once created, the cached one;
\* a request made during the load follows that acquisition and a request made
\* after it gets the cached instance.
C8_CreatedOnce ==
    hist.cleanups = 0 =>
        /\ Cardinality(NotFailed) <= 1
        /\ \A a \in NotFailed :
              /\ loadPromise = a
              /\ InFlight(a) => isLoading /\ poseLandmarkerInstance = NULL
              /\ loads[a] = "fulfilled" => ~isLoading /\ poseLandmarkerInstance = a
        /\ \A g \in StartedEffects :
              /\ effects[g].how = "cached" => effects[g].value = poseLandmarkerInstance
              /\ effects[g].how # "cached" /\ effects[g].awaits \in NotFailed =>
                    effects[g].awaits = loadPromise

\* one request joined the load in flight and a later one got the cached instance
C8_Witness ==
    /\ hist.cleanups = 0
    /\ effects[1].how = "pending"
    /\ effects[2].how = "cached"
    /\ effects[2].value = effects[1].awaits

\* C9: at most one PoseLandmarker is live (created and not closed), a live one is
\* the cached one (none is overwritten or left unreachable unclosed), and none is
\* closed twice.
C9_OneLiveInstance ==
    /\ Cardinality(Live) <= 1
    /\ \A a \in Live : poseLandmarkerInstance = a
    /\ \A a \in LoadIds : closed[a] <= 1

\* C10: a failed acquisition leaves the loader in its initial state (no cached
\* instance, not loading, no pending promise), the mounted session that awaited
\* it is not ready and shows an error, and a request made afterwards does not
\* follow a failed acquisition.
C10_FailureResetsLoader ==
    /\ lastOp = "loadFails" =>
          poseLandmarkerInstance = NULL /\ ~isLoading /\ loadPromise = NULL
    /\ lastOp = "initRejects" /\ effects[hist.arg].mounted => ~isReady /\ error # None
    /\ lastOp = "enable" /\ effects[hist.arg].awaits # NULL =>
          loads[effects[hist.arg].awaits] # "rejected"

\* C10 in the runs without cleanupPoseLandmarker: there the failure does reset
\* the loader
FailureResetsLoaderWithoutCleanup ==
    hist.cleanups = 0 =>
        C10_FailureResetsLoader

\* SpecLoader reaches the ready session SpecSession starts from
ReadySessionReached ==
    /\ isReady /\ poseLandmarkerRef = 1 /\ poseLandmarkerInstance = 1 /\ loadPromise = 1
    /\ effects[1] = [pc |-> "resolved", mounted |-> TRUE, how |-> "started", awaits |-> 1,
                     value |-> NULL]
    /\ \A a \in LoadIds : loads[a] = (IF a = 1 THEN "fulfilled" ELSE "unused")
    /\ \A g \in EffectIds \ {1} : effects[g] = NoEffect
    /\ hist.cleanups = 0 /\ preloadsPending = 0 /\ enableDetection /\ ~isProcessing
    /\ error = None /\ lastOp = "initResolves" /\ hist.arg = 1
SessionStateInitial ==
    /\ lastResultRef = None
    /\ smoothedLandmarksRef = None
    /\ plankDetectedCountRef = 0
    /\ plankLostCountRef = 0
    /\ ~isPlankActiveRef
    /\ detectionDurationsRef = <<>>
    /\ currentFpsRef = maxFps
    /\ frameTimeThresholdRef = [num |-> 1000, den |-> maxFps]

\* C12: after the session is torn down the previous result and the smoothed
\* landmarks are discarded and the tracker and the sampler are in their initial
\* state; the session enabled afterwards starts Idle with both counters at 0.
C12_TeardownResetsSession ==
    /\ lastOp = "disable" => SessionStateInitial
    /\ lastOp = "enable" =>
          plankDetectedCountRef = 0 /\ plankLostCountRef = 0 /\ ~isPlankActiveRef

(* -------------------------------- reset -------------------------------- *)
\* C13: reset() clears the session state (both counters, the hold, the time of
\* the last detection, the smoothed landmarks, the latency window, the rate, the
\* latest result and the error) and leaves the detector alone: the handle of the
\* hook, isReady, the cached instance of the loader and the close() calls are as
\* before; it invokes no callback, even when the hold was Active.
C13_ResetKeepsDetector ==
    lastOp = "reset" =>
        /\ SessionStateInitial
        /\ frameTimeSinceLastDetection = now
        /\ detectionResult = None
        /\ error = None
        /\ poseLandmarkerRef = hist.prev.handle
        /\ isReady = hist.prev.ready
        /\ poseLandmarkerInstance = hist.prev.instance
        /\ closed = hist.prev.closed
        /\ fired = "none"

\* reset() during an Active hold of a ready session whose rate had been lowered
C13_Witness ==
    /\ lastOp = "reset"
    /\ hist.prev.active
    /\ hist.prev.fps = minFps
    /\ poseLandmarkerRef # NULL /\ isReady /\ poseLandmarkerInstance = poseLandmarkerRef

\* the state of the smoother, the tracker and the sampler, and what the hook
\* reports: everything detectPose reads or writes besides the options, the
\* handle and isReady
SessionView ==
    [ plankDetectedCountRef |-> plankDetectedCountRef,
      plankLostCountRef |-> plankLostCountRef,
      isPlankActiveRef |-> isPlankActiveRef,
      frameTimeSinceLastDetection |-> frameTimeSinceLastDetection,
      lastResultRef |-> lastResultRef,
      smoothedLandmarksRef |-> smoothedLandmarksRef,
      detectionDurationsRef |-> detectionDurationsRef,
      currentFpsRef |-> currentFpsRef,
      frameTimeThresholdRef |-> frameTimeThresholdRef,
      detectionResult |-> detectionResult,
      error |-> error ]

\* that state in a session constructed at time t (lines 71-87: lastDetectionTimeRef
\* is 0, so the time since the last detection is t)
FreshSession(t) ==
    [ plankDetectedCountRef |-> 0,
      plankLostCountRef |-> 0,
      isPlankActiveRef |-> FALSE,
      frameTimeSinceLastDetection |-> Sat(t),
      lastResultRef |-> None,
      smoothedLandmarksRef |-> None,
      detectionDurationsRef |-> <<>>,
      currentFpsRef |-> maxFps,
      frameTimeThresholdRef |-> [num |-> 1000, den |-> maxFps],
      detectionResult |-> None,
      error |-> None ]

\* C14: reset() leaves the smoother, the tracker and the sampler in the state of
\* a session constructed at that moment.  detectPose is a function of that state,
\* the options, the handle and its inputs, so from there on the two sessions run
\* the same detections, invoke the same callbacks and produce the same scores and
\* intervals on every sequence of inputs.
C14_ResetEqualsFresh ==
    /\ lastOp \in {"init", "initResolves"} => SessionView = FreshSession(now)
    /\ lastOp = "reset" => SessionView = FreshSession(now)

\* reset() in the middle of a grace period, after frames with landmarks
C14_Witness ==
    /\ lastOp = "reset"
    /\ isReady
    /\ hist.prev.active
    /\ hist.prev.lost > 0
    /\ hist.sinceRun >= 0

(* ------------------------------ the sampler ---------------------------- *)
\* a step that is a detectPose call running the detection
DetectionRuns == lastOp' \in RunOps
\* line 142 in terms of the rate: now - lastDetectionTimeRef >= 1000 / currentFpsRef
IntervalElapsed(elapsed) == elapsed * currentFpsRef >= 1000
\* lastDetectionTimeRef is written by the step: the time since the last detection
\* is not the old one plus the time that passed
TimestampWritten ==
    /\ frameTimeSinceLastDetection' # frameTimeSinceLastDetection
    /\ ~(lastOp' = "tick" /\
          frameTimeSinceLastDetection' = Sat(frameTimeSinceLastDetection + TickMs))

\* C15 as stated: a detection runs only when the current interval has elapsed
\* since lastDetectionTimeRef; any two consecutive detections that run are at
\* least the interval in force at the second apart; lastDetectionTimeRef is
\* advanced only by calls that run the detection.
C15_DetectionsKeepInterval ==
    [][ /\ DetectionRuns => IntervalElapsed(frameTimeSinceLastDetection)
        /\ DetectionRuns /\ hist.sinceRun >= 0 => IntervalElapsed(hist.sinceRun)
        /\ TimestampWritten => lastOp' \in RunOps \cup {"reset"}
      ]_vars

\* C15 amended: the same, for two consecutive detections with no reset() between
\* them: reset() puts lastDetectionTimeRef back to 0, so the call after it runs
\* whatever the time since the detection before it.
C15_DetectionsKeepIntervalUnlessReset ==
    [][ /\ DetectionRuns => IntervalElapsed(frameTimeSinceLastDetection)
        /\ DetectionRuns /\ hist.sinceRun >= 0 /\ ~hist.resetSinceRun =>
              IntervalElapsed(hist.sinceRun)
        /\ DetectionRuns => frameTimeSinceLastDetection' = Sat(hist'.arg)
        /\ lastOp' = "reset" => frameTimeSinceLastDetection' = now
        /\ TimestampWritten => lastOp' \in RunOps \cup {"reset"}
      ]_vars

\* a detection that ran at the lowest rate, the interval of 1000/minFps elapsed
\* since the one before it
C15_Witness ==
    /\ lastOp \in FrameOps
    /\ Len(hist.recorded) = RecordedCap
    /\ hist.prev.fps = minFps
    /\ ~hist.everReset

\* the latencies recorded since construction or reset(), the most recent n of them
Recorded == hist.recorded
MostRecent(n) == LastOf(hist.recorded, n)

\* C16: the latency window never holds more than 10 samples; it holds the most
\* recent min(n, 10) of the n latencies recorded, in the order they arrived, so
\* the 11th sample evicts the oldest.
C16_WindowHoldsMostRecent ==
    /\ Len(detectionDurationsRef) <= WindowSize
    /\ detectionDurationsRef = MostRecent(WindowSize)
    /\ Len(Recorded) > WindowSize => detectionDurationsRef = Tail(Recorded)

\* a window that has evicted a sample different from the one that came in
C16_Witness ==
    /\ Len(Recorded) > WindowSize
    /\ Recorded[1] # detectionDurationsRef[WindowSize]
    /\ detectionDurationsRef[1] # detectionDurationsRef[WindowSize]

\* C17: from a fresh or reset sampler, after 10 recorded latencies whose average
\* is above 80 ms the interval is 1000/minFps, and after 10 whose average is below
\* 30 ms it is 1000/maxFps.
C17_ExtremeBands ==
    Len(Recorded) = WindowSize =>
        /\ Sum(Recorded) > 80 * WindowSize =>
              currentFpsRef = minFps /\ frameTimeThresholdRef = [num |-> 1000, den |-> minFps]
        /\ Sum(Recorded) < 30 * WindowSize =>
              currentFpsRef = maxFps /\ frameTimeThresholdRef = [num |-> 1000, den |-> maxFps]

\* ten latencies after a reset(), not all the same, that average above 80 ms
C17_Witness ==
    /\ hist.everReset
    /\ Len(Recorded) = WindowSize
    /\ Sum(Recorded) > 80 * WindowSize
    /\ \E i \in 1..WindowSize : Recorded[i] # Recorded[1]
    /\ currentFpsRef = minFps

\* 60% of the maximum rate, and the midpoint of the two rates (lines 240, 247)
SixtyPercentFps == Max(minFps, (maxFps * 6) \div 10)
MidpointFps == (minFps + maxFps) \div 2

\* C18 as stated: once the window is full the rate follows the average of the
\* last 10 latencies: 60% of the maximum rate when it is in 50-80 ms, both ends
\* included, the midpoint when it is from 30 ms up to but not including 50 ms; the
\* interval is 1000 / rate.
C18_MiddleBandsFromFifty ==
    Len(Recorded) >= WindowSize =>
        /\ frameTimeThresholdRef = [num |-> 1000, den |-> currentFpsRef]
        /\ (Sum(MostRecent(WindowSize)) >= 50 * WindowSize
             /\ Sum(MostRecent(WindowSize)) <= 80 * WindowSize) =>
              currentFpsRef = SixtyPercentFps
        /\ (Sum(MostRecent(WindowSize)) >= 30 * WindowSize
             /\ Sum(MostRecent(WindowSize)) < 50 * WindowSize) =>
              currentFpsRef = MidpointFps

\* C18 amended: the 60% band is above 50 ms up to and including 80 ms, the
\* midpoint band is from 30 ms up to and including 50 ms.
C18_MiddleBandsAboveFifty ==
    Len(Recorded) >= WindowSize =>
        /\ frameTimeThresholdRef = [num |-> 1000, den |-> currentFpsRef]
        /\ (Sum(MostRecent(WindowSize)) > 50 * WindowSize
             /\ Sum(MostRecent(WindowSize)) <= 80 * WindowSize) =>
              currentFpsRef = SixtyPercentFps
        /\ (Sum(MostRecent(WindowSize)) >= 30 * WindowSize
             /\ Sum(MostRecent(WindowSize)) <= 50 * WindowSize) =>
              currentFpsRef = MidpointFps

\* a full window that has rolled and averages exactly 50 ms: the midpoint rate
C18_Witness ==
    /\ Len(Recorded) > WindowSize
    /\ Sum(detectionDurationsRef) = 50 * WindowSize
    /\ currentFpsRef = MidpointFps
    /\ frameTimeThresholdRef = [num |-> 1000, den |-> MidpointFps]

(* ------------------------------ the smoother --------------------------- *)
\* the landmarks the last detection returned for the first person (line 161)
RawLandmarks == lastResultRef[1].landmarks[1]

\* C19: without previous landmarks smoothLandmarks returns the current landmarks
\* unchanged, whatever alpha; so the first frame with landmarks after the
\* construction of the session or after reset() is scored on the raw landmarks,
\* and these become the smoothed landmarks of the session.
C19_ColdStartKeepsRaw ==
    /\ \A alpha \in Alphas, currentLandmarks \in frameLandmarks :
          smoothLandmarks(currentLandmarks, None, alpha) = currentLandmarks
    /\ lastOp \in {"valid", "invalid"} /\ hist.landmarkFrames = 1 =>
          /\ smoothedLandmarksRef = Some(RawLandmarks)
          /\ detectionResult # None
          /\ detectionResult[1].landmarks = Some(RawLandmarks)

\* the first frame with landmarks after a reset() that ended a hold (so frames
\* had been smoothed before it), of a person who has moved
C19_Witness ==
    /\ lastOp = "invalid"
    /\ hist.landmarkFrames = 1
    /\ hist.everReset
    /\ hist.lastEvent = "onPlankDetected"
    /\ RawLandmarks = MovedPose
    /\ smoothedLandmarksRef = Some(MovedPose)

\* the spacing of the representable numbers around v (its unit in the last place)
Ulp(v) == 2 ^ FloatExponent(Abs(v), 1)
\* a call of smoothLandmarks with previous landmarks has returned
SmoothedWithPrevious ==
    /\ call.fn = "smoothLandmarks"
    /\ call.result # None
    /\ call.previousLandmarks # None
Coordinates == {"x", "y", "z"}
\* the indexes that have a landmark in both arrays of the call
SmoothedIndexes ==
    {i \in 1..Len(call.currentLandmarks) : i <= Len(call.previousLandmarks[1])}
\* alpha * current + (1 - alpha) * previous without rounding, times Scale
ExactEma(alpha, current, previous) == alpha * current + (Scale - alpha) * previous

\* C20 as stated: with previous landmarks and alpha in (0, 1], every coordinate
\* of the output is alpha * current + (1 - alpha) * previous as the code computes
\* it and lies in the closed interval between previous and current; it is current
\* when alpha = 1; the visibility is that of the current landmark.
C20_NoOvershoot ==
    SmoothedWithPrevious =>
        \A i \in SmoothedIndexes, k \in Coordinates :
            LET current == call.currentLandmarks[i][k]
                previous == call.previousLandmarks[1][i][k]
                smoothed == call.result[1][i][k]
            IN /\ smoothed = FAdd(FMul(call.alpha, current),
                                  FMul(FSub(One, call.alpha), previous))
               /\ smoothed >= Min(current, previous)
               /\ smoothed <= Max(current, previous)
               /\ call.alpha = One => smoothed = current
               /\ call.result[1][i].visibility = call.currentLandmarks[i].visibility

\* C20 amended: every coordinate of the output is alpha * current +
\* (1 - alpha) * previous up to the rounding of the three operations: it is within
\* 2 units in the last place of the larger of |current| and |previous| of the
\* exact value, hence of the interval between previous and current, which it can
\* leave by that much.  It is current when alpha = 1, the visibility is that of
\* the current landmark, and an index without a previous landmark keeps the
\* current landmark.
C20_NoOvershootBeyondRounding ==
    SmoothedWithPrevious =>
        /\ Len(call.result[1]) = Len(call.currentLandmarks)
        /\ \A i \in 1..Len(call.currentLandmarks) \ SmoothedIndexes :
               call.result[1][i] = call.currentLandmarks[i]
        /\ \A i \in SmoothedIndexes, k \in Coordinates :
            LET current == call.currentLandmarks[i][k]
                previous == call.previousLandmarks[1][i][k]
                smoothed == call.result[1][i][k]
                slack == 2 * Ulp(Max(Abs(current), Abs(previous)))
            IN /\ Abs(smoothed * Scale - ExactEma(call.alpha, current, previous))
                      <= slack * Scale
               /\ smoothed >= Min(current, previous) - slack
               /\ smoothed <= Max(current, previous) + slack
               /\ call.alpha = One => smoothed = current
               /\ call.result[1][i].visibility = call.currentLandmarks[i].visibility

\* a landmark that has not moved and is smoothed away from where it is, with the
\* factor the session uses
C20_Witness ==
    /\ SmoothedWithPrevious
    /\ call.alpha = SmoothingAlpha
    /\ call.currentLandmarks[1].x = call.previousLandmarks[1][1].x
    /\ call.result[1][1].x # call.currentLandmarks[1].x
    /\ call.result[1][1].visibility # call.previousLandmarks[1][1].visibility

(* ------------------------------ the scorer ----------------------------- *)
\* a call of detectPlankPosition has returned or thrown
Scored == call.fn = "detectPlankPosition" /\ call.result # None
\* the landmark of the call at idx is present with a visibility of at least 0.3
Shown(idx) ==
    /\ call.landmarks[idx] # undefined
    /\ "visibility" \in DOMAIN call.landmarks[idx]
    /\ 10 * call.landmarks[idx].visibility >= 3 * CoordUnits
\* the nose and the shoulder, hip, knee and ankle of one side at least are shown
FullBodyShown ==
    /\ Shown(POSE_LANDMARKS.NOSE)
    /\ \/ \A j \in CheckedJoints : Shown(LeftIndex[j])
       \/ \A j \in CheckedJoints : Shown(RightIndex[j])
\* the call went on to the checks of the form: it returned their result, or
\* threw in them
WentOnToScoring == call.result[1] = TypeErrorThrown \/ "penalized" \in DOMAIN call.result[1]

\* C21: detectPlankPosition returns isPlank = false, confidence 0 and exactly
\* one feedback message whenever the nose is missing or has a visibility below
\* 0.3, or neither side has all four of shoulder, hip, knee and ankle with a
\* visibility of at least 0.3; otherwise it goes on to scoring.
C21_VisibilityPrecondition ==
    Scored =>
        IF FullBodyShown THEN WentOnToScoring
        ELSE /\ ~WentOnToScoring
             /\ ~call.result[1].isPlank
             /\ call.result[1].confidence = 0
             /\ Len(call.result[1].feedback) = 1

\* rejected although the nose and both shoulders are in full view: each side
\* lacks one of its joints
C21_Witness ==
    /\ Scored
    /\ ~WentOnToScoring /\ call.result[1].confidence = 0
    /\ Shown(POSE_LANDMARKS.NOSE)
    /\ Shown(POSE_LANDMARKS.LEFT_SHOULDER) /\ Shown(POSE_LANDMARKS.RIGHT_SHOULDER)
    /\ Shown(POSE_LANDMARKS.LEFT_ANKLE) /\ Shown(POSE_LANDMARKS.RIGHT_KNEE)

\* the checks of the form have produced a result, in a call of
\* detectPlankPosition or on a combination of findings
Judged == call.fn \in {"detectPlankPosition", "score"} /\ call.result # None
               /\ "penalized" \in DOMAIN call.result[1]
PositiveMessages ==
    {"Perfect plank form!", "Good plank position - keep it up!",
     "Plank detected - maintain form"}
\* the corrective messages of the result
CorrectiveMessages ==
    {i \in 1..Len(call.result[1].feedback) : call.result[1].feedback[i] \notin PositiveMessages}

\* C22: for landmarks that pass the visibility precondition, isPlank is true
\* exactly when the penalized confidence is at least 60 and there are at most 3
\* corrective messages; a positive message is put in front exactly then.
C22_VerdictRule ==
    Judged =>
        /\ call.result[1].isPlank <=>
               call.result[1].penalized >= 60 /\ Cardinality(CorrectiveMessages) <= 3
        /\ call.result[1].confidence = Max(0, call.result[1].penalized)
        /\ call.result[1].penalized =
               100 - Sum([i \in 1..Len(Corrections(call.result[1].findings)) |->
                             Corrections(call.result[1].findings)[i].penalty])
        /\ Cardinality(CorrectiveMessages) = call.result[1].corrective
        /\ call.result[1].isPlank <=> call.result[1].feedback[1] \in PositiveMessages

\* a body judged a plank with a confidence of exactly 60 and 3 corrective
\* messages
C22_Witness ==
    /\ Scored /\ Judged
    /\ call.result[1].isPlank
    /\ call.result[1].confidence = 60
    /\ Cardinality(CorrectiveMessages) = 3

\* the sides the call measured
CallSides == MeasuredSides(call.landmarks, checkSideVisibility(call.landmarks, MinVisibility))
\* every measure of the call other than the shoulder-hip-ankle angle is ideal:
\* knees and elbows straight, elbows under the shoulders, the nose level with
\* the shoulders, the shoulders level with the hips, the body in the middle
\* half of the frame
OtherMeasuresIdeal ==
    /\ \A i \in 1..Len(CallSides) :
          LET s == CallSides[i]
          IN /\ s.elbow # undefined /\ s.wrist # undefined
             /\ calculateAngle(s.hip, s.knee, s.ankle) = Exactly(180)
             /\ calculateAngle(s.shoulder, s.elbow, s.wrist) = Exactly(180)
             /\ s.elbow.x = s.shoulder.x
             /\ call.landmarks[POSE_LANDMARKS.NOSE].y = s.shoulder.y
             /\ s.shoulder.y = s.hip.y
             /\ 4 * (s.shoulder.y + s.hip.y + s.ankle.y) > 3 * CoordUnits
             /\ 4 * (s.shoulder.y + s.hip.y + s.ankle.y) < 9 * CoordUnits
\* the shoulder-hip-ankle angle of every side measured is d degrees, to the degree
BodyAngleIs(d) ==
    \A i \in 1..Len(CallSides) :
        calculateAngle(CallSides[i].shoulder, CallSides[i].hip, CallSides[i].ankle)
            \in {Exactly(d), Between(d)}
HipMessages ==
    {"Lift your hips higher", "Lower your hips - avoid sagging",
     "Adjust hips for straighter alignment"}

\* C23: for landmarks whose shoulder-hip-ankle angle is 140 degrees and whose
\* every other measure is ideal, detectPlankPosition returns isPlank = false and
\* the feedback contains a hip-related message.
C23_SaggingHipsRejected ==
    Scored /\ Judged /\ BodyAngleIs(140) /\ OtherMeasuresIdeal =>
        /\ ~call.result[1].isPlank
        /\ \E i \in 1..Len(call.result[1].feedback) : call.result[1].feedback[i] \in HipMessages

\* a straight body: every side measured has shoulder, hip and ankle on one line
\* with the hip between them, and every other measure ideal
StraightBodyShown == BodyAngleIs(180) /\ OtherMeasuresIdeal

\* C24: for a perfectly straight body (hip, knee and elbow angles of 180
\* degrees, elbow under shoulder, nose level with shoulder, shoulders level with
\* hips, body vertically centred) detectPlankPosition applies no penalty and
\* returns isPlank = true with confidence 100.
C24_StraightBodyIsPerfect ==
    Scored /\ FullBodyShown /\ StraightBodyShown =>
        /\ Judged
        /\ call.result[1].isPlank
        /\ call.result[1].confidence = 100
        /\ call.result[1].feedback = <<"Perfect plank form!">>

\* a straight body with both sides in view gets 100
C24_Witness ==
    /\ Scored /\ FullBodyShown /\ StraightBodyShown
    /\ Len(CallSides) = 2
    /\ call.result[1].confidence = 100

(* --------------------------- the latest score -------------------------- *)
\* C25: every detectPose call that runs detection and gets a result publishes
\* a score: that of the smoothed landmarks when a person is found, the fixed
\* "no person" result (isPlank = false, confidence 0) otherwise, whether or not
\* the frame causes a transition of the hold.
C25_EveryFramePublishesScore ==
    /\ lastOp \in {"valid", "invalid"} =>
          /\ smoothedLandmarksRef # None
          /\ detectionResult # None
          /\ detectionResult[1].landmarks = smoothedLandmarksRef
          /\ detectionResult[1].isPlank <=> lastOp = "valid"
    /\ lastOp = "noPerson" =>
          /\ detectionResult =
                 Some([isPlank |-> FALSE, confidence |-> 0,
                       feedback |-> "No person detected", landmarks |-> None])

\* during a hold, a frame that is a plank and so changes nothing publishes the
\* score of landmarks that smoothing has moved away from the raw ones
C25_Witness ==
    /\ lastOp = "valid" /\ fired = "none" /\ isPlankActiveRef /\ hist.prev.active
    /\ detectionResult # None /\ detectionResult[1].isPlank
    /\ detectionResult[1].landmarks # Some(RawLandmarks)

(* ----------------------- one sample per detection ---------------------- *)
\* C26: every executed detection, one that throws included, appends exactly
\* one latency, its own, to the window before the next detection can start.
C26_OneSamplePerDetection ==
    [][lastOp' \in RunOps =>
          detectionDurationsRef' = PushDuration(detectionDurationsRef, hist'.arg)]_vars

(* ------------------------- the three-message cap ------------------------ *)
\* the penalty table: what each violated criterion costs
PenaltyTable(findings) ==
    (CASE findings.colinearity = "poor" -> 30
       [] findings.colinearity = "minor" -> 15
       [] OTHER -> 0) +
    (CASE findings.bodyAngle \in {"low", "high"} -> 35
       [] findings.bodyAngle = "off" -> 20
       [] OTHER -> 0) +
    (CASE findings.kneeAngle = "bent" -> 25
       [] findings.kneeAngle = "soft" -> 10
       [] OTHER -> 0) +
    (IF findings.elbowAngle = "between" THEN 20 ELSE 0) +
    (IF findings.elbowShoulderDistance = "far" THEN 15 ELSE 0) +
    (IF findings.shoulderNoseDistance = "far" THEN 10 ELSE 0) +
    (IF findings.shoulderHipLevelness = "far" THEN 15 ELSE 0) +
    (IF findings.framing = "off" THEN 10 ELSE 0)

\* C27: the cap of 3 feedback messages never changes the verdict.  For every
\* combination of violated criteria the confidence is 100 less the penalties
\* of the table, a confidence of at least 60 comes with at most 3 corrective
\* messages, and so isPlank holds exactly when the confidence is at least 60.
C27_CapNeverDecides ==
    Judged =>
        /\ call.result[1].penalized = 100 - PenaltyTable(call.result[1].findings)
        /\ call.result[1].penalized >= 60 => Cardinality(CorrectiveMessages) <= 3
        /\ call.result[1].isPlank <=> call.result[1].confidence >= 60

\* the four cheapest criteria violated together: 4 corrective messages, a
\* confidence of 55, no plank
C27_Witness ==
    /\ Judged /\ call.fn = "score"
    /\ Cardinality(CorrectiveMessages) = 4
    /\ call.result[1].confidence = 55
    /\ ~call.result[1].isPlank

(* ------------------------ nothing loaded after cleanup ------------------ *)
\* lines 93-95
isPoseLandmarkerLoaded == poseLandmarkerInstance # NULL
\* the operations that ask for the detector: loadPoseLandmarker() by the hook or
\* by the preload callback, and preloadPoseLandmarker()
RequestOps == {"enable", "preload", "preloadSkipped", "preloadCallback"}

\* C28: when cleanupPoseLandmarker() returns no instance is loaded, and none
\* becomes loaded unless a request for the detector is made after it: an
\* acquisition in flight when cleanup was called installs nothing afterwards.
C28_NothingLoadedAfterCleanup ==
    [][/\ lastOp' = "cleanup" => ~isPoseLandmarkerLoaded'
       /\ lastOp = "cleanup" /\ lastOp' \notin RequestOps => ~isPoseLandmarkerLoaded']_vars

(* ------------------------- the first ten samples ------------------------ *)
\* lines 87, 293: the interval of the highest rate
MaxRateInterval == [num |-> 1000, den |-> maxFps]

\* C29: until 10 latencies have been recorded since construction or the last
\* reset() the interval stays 1000/maxFps, whatever the latencies; reset()
\* empties the window and restores 1000/maxFps, so the 9 samples that follow a
\* reset() cannot change the interval.
C29_NoChangeBeforeTenSamples ==
    /\ Len(Recorded) < WindowSize =>
          /\ currentFpsRef = maxFps
          /\ frameTimeThresholdRef = MaxRateInterval
          /\ detectionDurationsRef = Recorded
    /\ lastOp = "reset" =>
          /\ detectionDurationsRef = <<>>
          /\ frameTimeThresholdRef = MaxRateInterval

\* nine latencies above 80 ms recorded since a reset(): the interval is still
\* that of the highest rate
C29_Witness ==
    /\ hist.everReset
    /\ lastOp \in FrameOps
    /\ Len(Recorded) = WindowSize - 1
    /\ \A i \in 1..Len(Recorded) : Recorded[i] > 80
    /\ frameTimeThresholdRef = MaxRateInterval

(* --------------------------- the four rates ----------------------------- *)
\* the integer rates the options are drawn from, and window totals on both
\* sides of every band limit
RateOptions == 1..MaxRate
BandTotals == {0, 30 * WindowSize - 1, 30 * WindowSize, 50 * WindowSize,
               50 * WindowSize + 1, 80 * WindowSize, 80 * WindowSize + 1}
\* for all integer options minFps <= maxFps the rate computed is one of the four
\* and lies between the two options
FourRatesForAllOptions ==
    \A lowest \in RateOptions, highest \in RateOptions :
        lowest <= highest =>
            \A total \in BandTotals :
                LET rate == TargetFpsOf(lowest, highest, total)
                IN /\ rate \in {lowest, Max(lowest, (highest * 6) \div 10),
                                (lowest + highest) \div 2, highest}
                   /\ rate >= lowest /\ rate <= highest

\* C30: for integer rates minFps <= maxFps the target rate is in every
\* reachable state one of minFps, max(minFps, floor(0.6 * maxFps)),
\* floor((minFps + maxFps) / 2) and maxFps; so it lies in [minFps, maxFps] and
\* the interval 1000 / rate lies in [1000 / maxFps, 1000 / minFps].
C30_FourRates ==
    /\ currentFpsRef \in {minFps, SixtyPercentFps, MidpointFps, maxFps}
    /\ currentFpsRef >= minFps /\ currentFpsRef <= maxFps
    /\ frameTimeThresholdRef.num * maxFps >= 1000 * frameTimeThresholdRef.den
    /\ frameTimeThresholdRef.num * minFps <= 1000 * frameTimeThresholdRef.den
    /\ \A total \in BandTotals :
           TargetFps(total) = TargetFpsOf(minFps, maxFps, total)
    /\ FourRatesForAllOptions

\* the rate has gone from the midpoint to 60% of the highest rate
C30_Witness ==
    /\ lastOp \in FrameOps
    /\ Len(Recorded) > WindowSize
    /\ hist.prev.fps = MidpointFps
    /\ currentFpsRef = SixtyPercentFps
    /\ frameTimeThresholdRef = [num |-> 1000, den |-> SixtyPercentFps]

(* ------------------------- the retained result -------------------------- *)
\* the results detectForVideo can return in front of the camera (line 154)
DetectionResults == {NobodyFound} \cup {PersonFound(l) : l \in frameLandmarks}

\* C31: when detectForVideo is invoked the session holds no earlier result:
\* lastResultRef is cleared before the call, so a call that throws leaves none,
\* a call that returns leaves its own result only, never more than one is
\* retained, and reset() and the teardown of the session drop the retained one.
C31_NoEarlierResultRetained ==
    /\ Len(lastResultRef) <= 1
    /\ lastResultRef # None => lastResultRef[1] \in DetectionResults
    /\ lastOp \in {"throw", "reset", "disable"} => lastResultRef = None
    /\ lastOp = "noPerson" => lastResultRef = Some(NobodyFound)
    /\ lastOp \in {"valid", "invalid"} =>
          lastResultRef # None /\ lastResultRef[1] # NobodyFound

\* a detection that threw in a session that had scored a person since its last
\* reset(): the result of the earlier detection is gone
C31_Witness ==
    /\ lastOp = "throw"
    /\ lastResultRef = None
    /\ smoothedLandmarksRef # None
    /\ detectionResult # None /\ detectionResult # Some(NoPersonResult)

(* --------------------------- the calls turned away ---------------------- *)
\* C32: a detectPose call turned away by the throttle, or made while the
\* session is not ready or has no handle, changes nothing: the two counters,
\* the hold, the time of the last detection, the smoothed landmarks, the
\* latency window, the interval and the latest score stay as they were; no
\* detection runs and no callback is invoked.
C32_RejectedCallChangesNothing ==
    [][lastOp' \in {"throttled", "notReady"} =>
          /\ lastOp' = "throttled" => Throttled /\ isReady /\ poseLandmarkerRef # NULL
          /\ lastOp' = "notReady" /\ isReady /\ poseLandmarkerRef # NULL => ~CanDetect(FALSE)
          /\ UNCHANGED <<plankDetectedCountRef, plankLostCountRef, isPlankActiveRef,
                         frameTimeSinceLastDetection, now, smoothedLandmarksRef,
                         lastResultRef, detectionDurationsRef, currentFpsRef,
                         frameTimeThresholdRef, detectionResult, error, isReady,
                         poseLandmarkerRef>>
          /\ fired' = "none"
          /\ hist'.recorded = hist.recorded
          /\ hist'.sinceRun = hist.sinceRun]_vars

\* a call turned away by the throttle during a hold, between two detections
C32_Witness ==
    /\ lastOp = "throttled"
    /\ isPlankActiveRef
    /\ plankDetectedCountRef > 0
    /\ detectionDurationsRef # <<>>
    /\ detectionResult # None
    /\ frameTimeSinceLastDetection > 0

(* ------------------------------ readiness ------------------------------- *)
\* C33: whenever the session reports isReady it holds a handle of the detector
\* (poseLandmarkerRef is not null), also after detection has been disabled and
\* enabled again.
C33_ReadyHoldsHandle ==
    isReady => poseLandmarkerRef # NULL

(* -------------------- teardown during the acquisition ------------------- *)
\* the step completes the await of an effect run that was torn down meanwhile
CompletesTornDownRun ==
    /\ lastOp' \in {"initResolves", "initRejects"}
    /\ ~effects[hist'.arg].mounted

\* C34: when a session is torn down while its acquisition is in flight, the
\* completion of the acquisition, success or failure, stores no handle in the
\* session, does not set isReady and does not set its error.
C34_TornDownRunStoresNothing ==
    [][CompletesTornDownRun => UNCHANGED <<poseLandmarkerRef, isReady, error>>]_vars

\* an acquisition that succeeded after the session that started it had been
\* torn down: no handle, not ready, no error
C34_Witness ==
    /\ lastOp = "initResolves"
    /\ effects[hist.arg].how = "started"
    /\ ~effects[hist.arg].mounted
    /\ ~enableDetection
    /\ poseLandmarkerRef = NULL /\ ~isReady /\ error = None
    /\ poseLandmarkerInstance = effects[hist.arg].awaits

(* ------------------------------- liveness ------------------------------- *)
\* the last call was a detection that did not yield valid form, or a reset()
ValidRunBroken == lastOp \in {"invalid", "noPerson", "throw", "reset"}
\* the last call was a detection that yielded neither invalid form nor no
\* person, or a reset()
InvalidRunBroken == lastOp \in {"valid", "throw", "reset"}

\* C35: in a ready session whose frame loop goes on with growing timestamps and
\* without reset(), when every detection that runs yields valid form a session
\* that is Idle eventually fires onPlankDetected, and when every detection that
\* runs yields invalid form or no person a session that is Active eventually
\* fires onPlankLost.
C35_HoldsStartAndEnd ==
    /\ (isReady /\ ~isPlankActiveRef) ~> (fired = "onPlankDetected" \/ ValidRunBroken)
    /\ (isReady /\ isPlankActiveRef) ~> (fired = "onPlankLost" \/ InvalidRunBroken)

\* a hold that ended on the last frame of a grace period of several frames,
\* at the lowest rate
C35_Witness ==
    /\ fired = "onPlankLost"
    /\ gracePeriodFrames > 1
    /\ hist.invalidRun = gracePeriodFrames
    /\ currentFpsRef = minFps

(* --------------------------- the graded score --------------------------- *)
\* C36: for landmarks that pass the visibility precondition the confidence
\* returned is max(0, 100 - the sum of the penalties of all criteria violated):
\* the penalties add up across the criteria, none resets the confidence, and
\* the confidence is always within 0..100.
C36_ConfidenceIsGraded ==
    Judged =>
        LET penalties == PenaltyTable(call.result[1].findings)
        IN /\ call.result[1].confidence = (IF penalties > 100 THEN 0 ELSE 100 - penalties)
           /\ call.result[1].confidence \in 0..100
           /\ call.result[1].confidence = 100 <=> Cardinality(CorrectiveMessages) = 0

\* a body that violates criteria worth more than 100: the confidence is 0
C36_Witness ==
    /\ Scored /\ Judged
    /\ call.result[1].penalized < 0
    /\ call.result[1].confidence = 0
    /\ Cardinality(CorrectiveMessages) > 3

(* ---------------------------- missing indices --------------------------- *)
\* C37: detectPlankPosition never throws on landmarks with missing indices:
\* an absent index among the 13 used, elbows and wrists included, counts as a
\* landmark of visibility 0, and the call returns a score.
C37_MissingIndexNeverThrows ==
    Scored =>
        /\ call.result[1] # TypeErrorThrown
        /\ {"isPlank", "confidence", "feedback"} \subseteq DOMAIN call.result[1]
====
